---------------------------- MODULE Spec2Model ----------------------------
(***************************************************************************)
(* Model of the backtesting engine of the kimchi-premium trading bot:      *)
(*   - EnhancedUpbitBacktest (src/upbit_bot/backtest.py): the USDT/KRW     *)
(*     trade executor execute_backtest_trade and the run_backtest loop;    *)
(*   - BitcoinBacktester (src/upbit_bot/bitcoin_backtest.py): the scaled   *)
(*     entry/exit simulation simulate_trades and run_backtest.             *)
(*                                                                         *)
(* Numbers.  The program computes in floats; the model computes in         *)
(* integers on fixed grids:                                                *)
(*   - a trade amount is a whole number of USDT;                           *)
(*   - a USDT balance or cost is a whole number of 1/Scale USDT, so that   *)
(*     amount * rate is exact for every rate n/Scale;                      *)
(*   - a KRW balance is a whole number of KRW;                             *)
(*   - a threshold or level is a whole number of tenths of a percent, and  *)
(*     a comparison of a percentage with it is done exactly, by cross      *)
(*     multiplication.                                                     *)
(* The only roundings are the ones named Floor... below (the float product *)
(* balance * 0.3, the reported equity and daily return, and the products   *)
(* of BitcoinBacktester, whose units are given with its definitions).      *)
(***************************************************************************)
EXTENDS Integers, Sequences, FiniteSets, TLC

VARIABLES
    \* ---- EnhancedUpbitBacktest -------------------------------------------
    config,             \* self.config (BacktestConfig)
    balance_usd,        \* self.balance_usd, in 1/Scale USDT
    balance_krw,        \* self.balance_krw, in KRW
    trades,             \* self.trades: sequence of TradeRecord
    daily_returns,      \* self.daily_returns
    equity_curve,       \* self.equity_curve
    current_position,   \* self.current_position
    daily_trade_count,  \* self.daily_trade_count
    last_trade_date,    \* self.last_trade_date (a day number, NoDate for None)
    \* ---- a caller of execute_backtest_trade ------------------------------
    calls,              \* the calls made so far, each with what it returned
    now,                \* the date of the latest call, in seconds
    \* ---- run_backtest ----------------------------------------------------
    pc,                 \* "idle", "loop", "done"
    run_args,           \* start_date, end_date, use_real_data, and the fetch's outcome
    historical_data,    \* the rows run_backtest iterates over
    data_source,        \* "none", "real", "synthetic"
    row_index,          \* rows processed so far
    previous_balance,   \* run_backtest's local previous_balance
    step_log,           \* per processed row: the signal and what the executor returned
    result,             \* what the latest metrics call returned
    \* ---- BitcoinBacktester -----------------------------------------------
    btc_config,         \* self.config (BitcoinBacktestConfig)
    btc_pc,             \* run_backtest's position: "idle", "loop", "done", "error"
    btc_fetch,          \* what fetch_historical_data met: "none", "candles", "empty", "raises"
    df,                 \* the rows simulate_trades iterates over
    idx,                \* rows processed so far (the rows are one hour apart)
    btc_balance_krw,    \* simulate_trades' balance_krw, in KRW
    btc_balance_usdt,   \* simulate_trades' balance_usdt, in USDT cents
    btc_balance_btc,    \* simulate_trades' balance_btc, in 0.001 BTC
    btc_trades,         \* simulate_trades' trades
    open_positions,     \* simulate_trades' open_positions
    balance_history,    \* simulate_trades' balance_history
    used_entry_levels,  \* simulate_trades' used_entry_levels
    used_exit_levels,   \* simulate_trades' used_exit_levels
    btc_result,         \* what run_backtest returned
    \* ---- a session on one EnhancedUpbitBacktest --------------------------
    previous_runs,      \* what the runs before the current one returned
    progress_attached,  \* the web application's progress wrapper is installed
    progress_messages,  \* the progress values the wrapper has sent
    \* ---- optimize_parameters ---------------------------------------------
    sweep_pc,           \* "idle", "loop", "done"
    param_combinations, \* the combinations of the sweep
    sweep_runs,         \* per combination tried: its config, its data, whether it raised
    results,            \* optimize_parameters' results
    best_return,        \* optimize_parameters' best_return
    best_params,        \* optimize_parameters' best_params (no element for {})
    optimization,       \* what optimize_parameters returned (no element before)
    \* ---- the desktop application's optimization worker -------------------
    is_running,         \* self.is_running
    worker_pc,          \* "idle", "running", "complete"
    worker_data,        \* the rows every run of the worker gets
    worker_current,     \* the worker's current: combinations started
    worker_results,     \* the worker's results
    worker_best,        \* the worker's best_params (no element for None)
    \* ---- BitcoinArbitrageStrategy ----------------------------------------
    arb_open_positions, \* self.open_positions
    position_counter,   \* self.position_counter
    \* ---- BitcoinBacktester.fetch_historical_data -------------------------
    fetch_pc,           \* "idle", "binance", "upbit", "done"
    fetch_args,         \* start_ts, end_ts (hours)
    current_ts,         \* the loops' current_ts
    binance_data,       \* the timestamps of binance_data
    upbit_data,         \* the timestamps of upbit_data
    fetched,            \* the timestamps of the merged frame
    \* ---- UpbitTradingBot and its RiskManager -----------------------------
    trading_config,     \* self.config (TradingConfig)
    clock,              \* time.time() and datetime.now(), in seconds
    daily_trades,       \* risk_manager.daily_trades
    daily_loss,         \* risk_manager.daily_loss
    last_trade_time,    \* risk_manager.last_trade_time
    daily_reset_time,   \* risk_manager.daily_reset_time
    virtual_balance_usd,    \* self.virtual_balance_usd, in USDT
    virtual_balance_krw,    \* self.virtual_balance_krw, in KRW
    trade_history,      \* self.trade_history
    performance_metrics,    \* self.performance_metrics
    last_market_data,   \* self.last_market_data (no element for {})
    trade_calls,        \* the calls of execute_trade so far, each with what it did
    bot_is_running,     \* the bot's self.is_running
    bot_pc,             \* the trading thread: "idle", "started", "test", "body", "sleep", "stopped"
    stop_requested,     \* stop_bot was called
    iterations,         \* iterations of run_bot's loop so far
    \* ---- EnhancedBitcoinBacktester.simulate_trades_with_ma ---------------
    ma_pc,              \* "idle", "loop", "done"
    ma_df,              \* the rows it iterates over, each with its ma_14
    ma_idx,             \* rows processed so far
    ma_balance_krw,     \* its balance_krw, in KRW
    ma_balance_usdt,    \* its balance_usdt, in USDT cents
    ma_balance_btc,     \* its balance_btc, in 0.001 BTC
    ma_open_positions,  \* its open_positions
    ma_trades,          \* its trades
    ma_signals,         \* its ma_signals
    ma_balance_history, \* its balance_history
    ma_result           \* what it returned (no element before)

enhanced_vars == <<config, balance_usd, balance_krw, trades, daily_returns,
                   equity_curve, current_position, daily_trade_count,
                   last_trade_date>>
caller_vars == <<calls, now>>
run_vars == <<pc, run_args, historical_data, data_source, row_index,
              previous_balance, step_log, result>>

btc_vars == <<btc_config, btc_pc, btc_fetch, df, idx, btc_balance_krw,
              btc_balance_usdt, btc_balance_btc, btc_trades, open_positions,
              balance_history, used_entry_levels, used_exit_levels, btc_result>>

session_vars == <<previous_runs, progress_attached, progress_messages>>
sweep_vars == <<sweep_pc, param_combinations, sweep_runs, results, best_return,
                best_params, optimization>>
desktop_vars == <<is_running, worker_pc, worker_data, worker_current, worker_results,
                  worker_best>>
strategy_vars == <<arb_open_positions, position_counter>>
fetch_vars == <<fetch_pc, fetch_args, current_ts, binance_data, upbit_data, fetched>>
trader_vars == <<trading_config, daily_trades, daily_loss, last_trade_time,
                 daily_reset_time, virtual_balance_usd, virtual_balance_krw,
                 trade_history, performance_metrics>>
bot_vars == <<trader_vars, clock, last_market_data, trade_calls, bot_is_running,
              bot_pc, stop_requested, iterations>>
ma_vars == <<ma_pc, ma_df, ma_idx, ma_balance_krw, ma_balance_usdt, ma_balance_btc,
             ma_open_positions, ma_trades, ma_signals, ma_balance_history, ma_result>>
other_vars == <<sweep_vars, desktop_vars, strategy_vars, fetch_vars, bot_vars,
                ma_vars>>

vars == <<enhanced_vars, caller_vars, run_vars, btc_vars, session_vars, other_vars>>

-----------------------------------------------------------------------------
(* Bounds of the model *)

\* calls of execute_backtest_trade made by the caller
MaxCalls == 3
\* rows of one run_backtest
MaxRows == 3

(* Units *)
Scale == 10 * 100
SecondsPerDay == 24 * 3600
NoDate == 0 - 1
None == "None"

\* reset_state's and calculate_performance_metrics' fixed USDT/KRW rate
ApproxRate == 1300
\* run_backtest's minimum trade size
MinTradeSize == 100

Min(a, b) == IF a <= b THEN a ELSE b

\* floor of n * num / den, without the product n * num overflowing
FloorMulDiv(n, num, den) ==
    LET d == IF den > 0 THEN den ELSE 0 - den
        m == IF den > 0 THEN n ELSE 0 - n
    IN  (m \div d) * num + ((m % d) * num) \div d

-----------------------------------------------------------------------------
(* Inputs *)

\* usd_krw_rate and usdt_krw_price of a row: premiums of -1%, 0%, 1%, 2%, 3%
\* at the rate 1300, and a row at another rate (premium 0%)
Rates == {1300}
Prices == {1287, 1300, 1313, 1326, 1339}
OtherRate == [usd_krw_rate |-> 1350, usdt_krw_price |-> 1350]
Rows == [usd_krw_rate : Rates, usdt_krw_price : Prices] \cup {OtherRate}
\* a row under the buy threshold, one over the sell threshold, one between
FairRows == {[usd_krw_rate |-> 1300, usdt_krw_price |-> 1287],
             [usd_krw_rate |-> 1300, usdt_krw_price |-> 1339],
             OtherRate}

\* thresholds in tenths of a percent, rates in 1/Scale
DefaultConfig ==
    [initial_balance_usd |-> 1000, initial_balance_krw |-> 0,
     max_trade_amount |-> 1000, price_threshold |-> 5,
     buy_threshold |-> 0, sell_threshold |-> 20,
     stop_loss_threshold |-> 20, take_profit_threshold |-> 10,
     max_trades_per_day |-> 10,
     commission_rate |-> 2, slippage_rate |-> 0]

-----------------------------------------------------------------------------
(* StrategyTester / ArbitrageStrategy *)

\* pnl_pct <= -stop_loss or pnl_pct >= take_profit, thresholds in tenths of a percent
should_exit_position(cfg, entry_price, current_price, position_type) ==
    LET diff == IF position_type = "LONG" THEN current_price - entry_price
                                          ELSE entry_price - current_price
    IN  \/ diff * 1000 <= (0 - cfg.stop_loss_threshold) * entry_price
        \/ diff * 1000 >= cfg.take_profit_threshold * entry_price

\* a faulty variant: the sell threshold is used for buying too
calculate_signal_one_threshold(cfg, data) ==
    LET diff == data.usdt_krw_price - data.usd_krw_rate
    IN  IF diff * 1000 < cfg.sell_threshold * data.usd_krw_rate THEN "BUY"
        ELSE IF diff * 1000 > cfg.sell_threshold * data.usd_krw_rate THEN "SELL"
        ELSE "HOLD"

\* a faulty variant: the thresholds are inclusive
calculate_signal_inclusive(cfg, data) ==
    LET diff == data.usdt_krw_price - data.usd_krw_rate
    IN  IF diff * 1000 <= cfg.buy_threshold * data.usd_krw_rate THEN "BUY"
        ELSE IF diff * 1000 >= cfg.sell_threshold * data.usd_krw_rate THEN "SELL"
        ELSE "HOLD"

\* kimchi_premium = (usdt_krw_price - usd_krw_rate) / usd_krw_rate * 100
calculate_signal(cfg, data) ==
    LET diff == data.usdt_krw_price - data.usd_krw_rate
    IN  IF diff * 1000 < cfg.buy_threshold * data.usd_krw_rate THEN "BUY"
        ELSE IF diff * 1000 > cfg.sell_threshold * data.usd_krw_rate THEN "SELL"
        ELSE "HOLD"

-----------------------------------------------------------------------------
(* EnhancedUpbitBacktest *)

\* the fields reset_state sets, as a record (the object's run state)
reset_state(cfg) ==
    LET split == cfg.initial_balance_krw <= 0
        half  == (cfg.initial_balance_usd * Scale) \div 2
    IN  [balance_usd |-> IF split THEN half ELSE cfg.initial_balance_usd * Scale,
         balance_krw |-> IF split THEN (half * ApproxRate) \div Scale
                                  ELSE cfg.initial_balance_krw,
         trades |-> << >>,
         daily_returns |-> << >>,
         equity_curve |-> << >>,
         current_position |-> None,
         daily_trade_count |-> 0,
         last_trade_date |-> NoDate]

\* a faulty variant: the slippage is taken on the amount, not on amount * price
calculate_commission_and_slippage_flat(cfg, amount, price) ==
    amount * cfg.commission_rate + amount * cfg.slippage_rate

\* commission + slippage, in 1/Scale USDT
calculate_commission_and_slippage(cfg, amount, price) ==
    amount * cfg.commission_rate + amount * price * cfg.slippage_rate

DayOf(date) == date \div SecondsPerDay

\* difference_percentage, in hundredths of a percent (rounded down)
FloorDiffPercentage(price, usd_krw_rate) ==
    ((price - usd_krw_rate) * 10000) \div usd_krw_rate

TradeRecord(action, amount, price, usd_krw_rate, date, usd, krw) ==
    [timestamp |-> date, action |-> action, amount_usd |-> amount,
     usdt_krw_price |-> price, usd_krw_rate |-> usd_krw_rate,
     difference_percentage |-> FloorDiffPercentage(price, usd_krw_rate),
     success |-> TRUE, reason |-> "", profit_loss |-> 0,
     balance_after |-> [USD |-> usd, KRW |-> krw]]

Rejected(reason) == [success |-> FALSE, reason |-> reason, costs |-> 0]
Executed(costs) == [success |-> TRUE, reason |-> "", costs |-> costs]

\* the executor's part of the object's state
ExecutorState == [balance_usd |-> balance_usd, balance_krw |-> balance_krw,
                  trades |-> trades, daily_trade_count |-> daily_trade_count,
                  last_trade_date |-> last_trade_date]

\* a faulty variant: the daily counter is never incremented
execute_backtest_trade_uncounted(cfg, st, action, amount, price, usd_krw_rate, date) ==
    LET costs == calculate_commission_and_slippage(cfg, amount, price)
        st1 == [st EXCEPT !.last_trade_date = DayOf(date),
                          !.daily_trade_count =
                              IF st.last_trade_date # DayOf(date) THEN 0 ELSE @]
    IN  IF st1.daily_trade_count >= cfg.max_trades_per_day
        THEN [state |-> st1, result |-> Rejected("Daily trade limit exceeded")]
        ELSE IF action = "BUY" /\ st1.balance_usd < amount * Scale + costs
        THEN [state |-> st1, result |-> Rejected("Insufficient USDT balance")]
        ELSE IF action # "BUY" /\ st1.balance_krw < amount * price
        THEN [state |-> st1, result |-> Rejected("Insufficient KRW balance")]
        ELSE LET usd == IF action = "BUY"
                        THEN st1.balance_usd - (amount * Scale + costs)
                        ELSE st1.balance_usd + (amount * Scale - costs)
                 krw == IF action = "BUY"
                        THEN st1.balance_krw + amount * price
                        ELSE st1.balance_krw - amount * price
             IN  [state |-> [st1 EXCEPT
                        !.balance_usd = usd, !.balance_krw = krw,
                        !.trades = Append(@, TradeRecord(action, amount, price,
                                              usd_krw_rate, date, usd, krw))],
                  result |-> Executed(costs)]

\* a faulty variant: the BUY leg takes the USDT before the balance check rejects
execute_backtest_trade_torn(cfg, st, action, amount, price, usd_krw_rate, date) ==
    LET costs == calculate_commission_and_slippage(cfg, amount, price)
        st1 == [st EXCEPT !.last_trade_date = DayOf(date),
                          !.daily_trade_count =
                              IF st.last_trade_date # DayOf(date) THEN 0 ELSE @]
    IN  IF st1.daily_trade_count >= cfg.max_trades_per_day
        THEN [state |-> st1, result |-> Rejected("Daily trade limit exceeded")]
        ELSE IF action = "BUY" /\ st1.balance_usd < amount * Scale + costs
        THEN [state |-> [st1 EXCEPT !.balance_usd = @ - costs],
              result |-> Rejected("Insufficient USDT balance")]
        ELSE IF action # "BUY" /\ st1.balance_krw < amount * price
        THEN [state |-> st1, result |-> Rejected("Insufficient KRW balance")]
        ELSE LET usd == IF action = "BUY"
                        THEN st1.balance_usd - (amount * Scale + costs)
                        ELSE st1.balance_usd + (amount * Scale - costs)
                 krw == IF action = "BUY"
                        THEN st1.balance_krw + amount * price
                        ELSE st1.balance_krw - amount * price
             IN  [state |-> [st1 EXCEPT
                        !.balance_usd = usd, !.balance_krw = krw,
                        !.daily_trade_count = @ + 1,
                        !.trades = Append(@, TradeRecord(action, amount, price,
                                              usd_krw_rate, date, usd, krw))],
                  result |-> Executed(costs)]

\* execute_backtest_trade on the executor state st: the state after it and what
\* it returns
execute_backtest_trade(cfg, st, action, amount, price, usd_krw_rate, date) ==
    LET costs == calculate_commission_and_slippage(cfg, amount, price)
        \* the daily counter restarts on a new calendar day
        st1 == [st EXCEPT !.last_trade_date = DayOf(date),
                          !.daily_trade_count =
                              IF st.last_trade_date # DayOf(date) THEN 0 ELSE @]
    IN  IF st1.daily_trade_count >= cfg.max_trades_per_day
        THEN [state |-> st1, result |-> Rejected("Daily trade limit exceeded")]
        ELSE IF action = "BUY" /\ st1.balance_usd < amount * Scale + costs
        THEN [state |-> st1, result |-> Rejected("Insufficient USDT balance")]
        ELSE IF action # "BUY" /\ st1.balance_krw < amount * price
        THEN [state |-> st1, result |-> Rejected("Insufficient KRW balance")]
        ELSE LET usd == IF action = "BUY"
                        THEN st1.balance_usd - (amount * Scale + costs)
                        ELSE st1.balance_usd + (amount * Scale - costs)
                 krw == IF action = "BUY"
                        THEN st1.balance_krw + amount * price
                        ELSE st1.balance_krw - amount * price
             IN  [state |-> [st1 EXCEPT
                        !.balance_usd = usd, !.balance_krw = krw,
                        !.daily_trade_count = @ + 1,
                        !.trades = Append(@, TradeRecord(action, amount, price,
                                              usd_krw_rate, date, usd, krw))],
                  result |-> Executed(costs)]

-----------------------------------------------------------------------------
(* Metrics.  A percentage is a whole number of tenths of a percent, a         *)
(* profit_loss or a balance a whole number of 1/Scale USDT; quotients are     *)
(* rounded down (towards minus infinity).                                     *)

\* n / d * 100, in tenths of a percent
FloorPercent(n, d) == FloorMulDiv(n, 10 * 100, d)

RECURSIVE SeqSum(_)
SeqSum(seq) == IF Len(seq) = 0 THEN 0 ELSE Head(seq) + SeqSum(Tail(seq))

\* the loop of calculate_max_drawdown from the i-th value on
RECURSIVE DrawdownLoop(_, _, _, _)
DrawdownLoop(curve, i, peak, max_dd) ==
    IF i > Len(curve) THEN max_dd
    ELSE LET new_peak == IF curve[i] > peak THEN curve[i] ELSE peak
             drawdown == FloorPercent(new_peak - curve[i], new_peak)
         IN  DrawdownLoop(curve, i + 1, new_peak,
                          IF drawdown > max_dd THEN drawdown ELSE max_dd)

\* a faulty variant: the peak is the maximum of the whole curve
calculate_max_drawdown_global_peak(curve) ==
    IF Len(curve) = 0 THEN 0
    ELSE LET peak == CHOOSE v \in {curve[i] : i \in 1..Len(curve)} :
                        \A i \in 1..Len(curve) : curve[i] <= v
         IN  DrawdownLoop(curve, 1, peak, 0)

calculate_max_drawdown(curve) ==
    IF Len(curve) = 0 THEN 0 ELSE DrawdownLoop(curve, 1, curve[1], 0)

\* a faulty variant: a trade without loss counts as a winning trade
WinningTrades_nonnegative(trade_list) ==
    Cardinality({i \in 1..Len(trade_list) : trade_list[i].profit_loss >= 0})

\* sum(1 for trade in self.trades if trade.profit_loss > 0), and < 0
WinningTrades(trade_list) ==
    Cardinality({i \in 1..Len(trade_list) : trade_list[i].profit_loss > 0})
LosingTrades(trade_list) ==
    Cardinality({i \in 1..Len(trade_list) : trade_list[i].profit_loss < 0})

\* total_wins and total_losses
TotalWins(trade_list) ==
    SeqSum([i \in 1..Len(trade_list) |->
              IF trade_list[i].profit_loss > 0 THEN trade_list[i].profit_loss ELSE 0])
TotalLosses(trade_list) ==
    SeqSum([i \in 1..Len(trade_list) |->
              IF trade_list[i].profit_loss < 0 THEN 0 - trade_list[i].profit_loss ELSE 0])

\* a float that may be float('inf'); value in hundredths
Finite(value) == [inf |-> FALSE, value |-> value]
Infinite == [inf |-> TRUE, value |-> 0]

\* no metrics call has returned yet
NoResult == [call |-> "none"]

\* the dict calculate_performance_metrics returns, without its sharpe_ratio
calculate_performance_metrics(cfg, usd, krw, trade_list, curve) ==
    LET initial_value == IF cfg.initial_balance_krw > 0
                         THEN cfg.initial_balance_usd * Scale
                              + FloorMulDiv(cfg.initial_balance_krw, Scale, ApproxRate)
                         ELSE cfg.initial_balance_usd * Scale
        final_value == usd + FloorMulDiv(krw, Scale, ApproxRate)
        total_return == final_value - initial_value
        return_percentage == IF initial_value > 0
                             THEN FloorPercent(total_return, initial_value) ELSE 0
        winning_trades == WinningTrades(trade_list)
        losing_trades == LosingTrades(trade_list)
        total_wins == TotalWins(trade_list)
        total_losses == TotalLosses(trade_list)
        basic == [call |-> "calculate_performance_metrics",
                  initial_balance |-> initial_value,
                  final_balance |-> final_value,
                  total_return |-> total_return,
                  return_percentage |-> return_percentage,
                  max_drawdown |-> 0, win_rate |-> 0,
                  profit_factor |-> Finite(0), total_trades |-> 0,
                  winning_trades |-> 0, losing_trades |-> 0,
                  average_win |-> 0, average_loss |-> 0]
    IN  IF Len(trade_list) = 0 THEN basic
        ELSE [basic EXCEPT
                !.max_drawdown = calculate_max_drawdown(curve),
                !.win_rate = FloorPercent(winning_trades, Len(trade_list)),
                !.profit_factor = IF total_losses > 0
                                  THEN Finite((total_wins * 100) \div total_losses)
                                  ELSE Infinite,
                !.total_trades = Len(trade_list),
                !.winning_trades = winning_trades,
                !.losing_trades = losing_trades,
                !.average_win = IF winning_trades > 0
                                THEN total_wins \div winning_trades ELSE 0,
                !.average_loss = IF losing_trades > 0
                                 THEN total_losses \div losing_trades ELSE 0]

-----------------------------------------------------------------------------
(* Initial state: a constructed EnhancedUpbitBacktest (__init__ calls         *)
(* reset_state), no call made and no run started                              *)

\* a valid configuration, and ones with: slippage, one trade a day, a trade
\* amount under the 30% cap, an initial KRW balance, a buy threshold above the
\* sell threshold, a zero trade amount
Configs ==
    LET base == [DefaultConfig EXCEPT !.max_trades_per_day = 2]
    IN  {base,
         [base EXCEPT !.slippage_rate = 1],
         [base EXCEPT !.max_trades_per_day = 1],
         [base EXCEPT !.max_trade_amount = 120],
         [base EXCEPT !.initial_balance_krw = 390000],
         [base EXCEPT !.buy_threshold = 30],
         [base EXCEPT !.max_trade_amount = 0]}

\* an EnhancedUpbitBacktest with configuration cfg that holds the trades
\* trade_list and the equity curve curve
InitHolding(cfg, trade_list, curve) ==
    LET st == reset_state(cfg)
    IN  /\ config = cfg
        /\ balance_usd = st.balance_usd
        /\ balance_krw = st.balance_krw
        /\ trades = trade_list
        /\ daily_returns = st.daily_returns
        /\ equity_curve = curve
        /\ current_position = st.current_position
        /\ daily_trade_count = st.daily_trade_count
        /\ last_trade_date = st.last_trade_date
        /\ calls = << >>
        /\ now = 0
        /\ pc = "idle"
        /\ run_args = None
        /\ historical_data = << >>
        /\ data_source = "none"
        /\ row_index = 0
        /\ previous_balance = 0
        /\ step_log = << >>
        /\ result = NoResult

\* a constructed EnhancedUpbitBacktest with configuration cfg
InitEnhanced(cfg) ==
    InitHolding(cfg, reset_state(cfg).trades, reset_state(cfg).equity_curve)

-----------------------------------------------------------------------------
(* A caller of execute_backtest_trade, with dates that never go back *)

CallAmounts == {120, 400}
CallPrices == {1339}
\* the time between two calls: none, the bot's cooldown, a day
cooldown_period == 300
CallGaps == {0, cooldown_period, SecondsPerDay}

\* what a call did, for the properties: the arguments, what it returned and the
\* balances and the number of trades before and after it
CallRecord(action, amount, price, usd_krw_rate, date, r) ==
    [action |-> action, amount |-> amount, price |-> price,
     usd_krw_rate |-> usd_krw_rate, date |-> date, result |-> r.result,
     before |-> [USD |-> balance_usd, KRW |-> balance_krw, trades |-> Len(trades)],
     after |-> [USD |-> r.state.balance_usd, KRW |-> r.state.balance_krw,
                trades |-> Len(r.state.trades)]]

\* one call execute_backtest_trade(action, amount, price, usd_krw_rate, date)
\* outside a run (run_backtest is not re-entered: the loop is single-threaded)
CallExecute(action, amount, price, usd_krw_rate, gap) ==
    LET date == now + gap
        r == execute_backtest_trade(config, ExecutorState, action, amount, price,
                                    usd_krw_rate, date)
    IN  /\ pc = "idle"
        /\ Len(calls) < MaxCalls
        /\ now' = date
        /\ balance_usd' = r.state.balance_usd
        /\ balance_krw' = r.state.balance_krw
        /\ trades' = r.state.trades
        /\ daily_trade_count' = r.state.daily_trade_count
        /\ last_trade_date' = r.state.last_trade_date
        /\ calls' = Append(calls, CallRecord(action, amount, price, usd_krw_rate,
                                             date, r))
        /\ UNCHANGED <<config, daily_returns, equity_curve, current_position>>
        /\ UNCHANGED <<run_vars, btc_vars, session_vars, other_vars>>

-----------------------------------------------------------------------------
(* run_backtest *)

\* min(max_trade_amount, balance_usd * 0.3), the product rounded down to a
\* whole USDT
FloorTradeAmount(cfg, usd) == Min(cfg.max_trade_amount, (usd * 3) \div (10 * Scale))

\* balance_usd + balance_krw / usd_krw_rate, in 1/Scale USDT (rounded down)
FloorEquity(usd, krw, usd_krw_rate) == usd + FloorMulDiv(krw, Scale, usd_krw_rate)

\* (current - previous) / previous * 100, in tenths of a percent (rounded down)
FloorDailyReturn(current, previous) ==
    IF previous > 0 THEN ((current - previous) * 1000) \div previous
    ELSE ((previous - current) * 1000) \div (0 - previous)

\* pd.date_range(start, end, freq='D'): one row a day, none when end < start
DateRange(start_date, end_date) ==
    IF end_date < start_date THEN << >>
    ELSE [k \in 1..(end_date - start_date + 1) |-> start_date + k - 1]

StartDate == 1

\* the data run_backtest ends up iterating over, with rows the values of its
\* rows (the synthetic generator's or the exchange's):
\*   use_real_data and the fetch returns candles: the candles of [start, end];
\*   use_real_data and the fetch returns no candle: an empty frame;
\*   use_real_data and the fetch raises: fetch_real_historical_data returns a
\*     synthetic frame, which has no 'close' column, so combining it raises
\*     KeyError on its first row and run_backtest generates synthetic data;
\*   not use_real_data: synthetic data.
FetchOutcomes == {"candles", "empty", "raises"}
LoadData(use_real_data, outcome, dates, rows) ==
    LET frame == [k \in 1..Len(dates) |->
                    [datetime |-> dates[k] * SecondsPerDay,
                     usd_krw_rate |-> rows[k].usd_krw_rate,
                     usdt_krw_price |-> rows[k].usdt_krw_price]]
    IN  IF use_real_data /\ outcome = "candles"
        THEN [source |-> "real", data |-> frame]
        ELSE IF use_real_data /\ outcome = "empty"
        THEN [source |-> "real", data |-> << >>]
        ELSE [source |-> "synthetic", data |-> frame]

\* run_backtest up to its loop: reset_state, the data, previous_balance
RunStart(use_real_data, outcome, end_date, rows) ==
    LET st == reset_state(config)
        dates == DateRange(StartDate, end_date)
        loaded == LoadData(use_real_data, outcome, dates, rows)
    IN  /\ balance_usd' = st.balance_usd
        /\ balance_krw' = st.balance_krw
        /\ trades' = st.trades
        /\ daily_returns' = st.daily_returns
        /\ equity_curve' = st.equity_curve
        /\ current_position' = st.current_position
        /\ daily_trade_count' = st.daily_trade_count
        /\ last_trade_date' = st.last_trade_date
        /\ run_args' = [start_date |-> StartDate, end_date |-> end_date,
                        use_real_data |-> use_real_data, fetch |-> outcome]
        /\ historical_data' = loaded.data
        /\ data_source' = loaded.source
        /\ row_index' = 0
        /\ previous_balance' = config.initial_balance_usd * Scale
        /\ step_log' = << >>
        /\ pc' = "loop"
        /\ UNCHANGED <<config, calls, now, result, btc_vars, other_vars>>

\* a run on a fresh object, with any arguments and any data: the exchange
\* answers a fetch with candles only if [start, end] holds a day
RunBacktest ==
    /\ pc = "idle"
    /\ calls = << >>
    /\ \E use_real_data \in BOOLEAN, end_date \in 0..MaxRows :
        \E outcome \in IF use_real_data
                       THEN IF end_date >= StartDate THEN FetchOutcomes
                                                     ELSE {"empty", "raises"}
                       ELSE {"none"} :
        \E rows \in [1..Len(DateRange(StartDate, end_date)) -> Rows] :
            RunStart(use_real_data, outcome, end_date, rows)
    /\ UNCHANGED session_vars

\* what the loop of run_backtest carries from row to row
LoopState(st, returns, curve, previous) ==
    [state |-> st, daily_returns |-> returns, equity_curve |-> curve,
     previous_balance |-> previous]

\* a faulty variant: the equity point is appended only when a trade was attempted
ProcessRow_equity_on_trade(cfg, run, row) ==
    LET signal == calculate_signal(cfg, row)
        trade_amount == FloorTradeAmount(cfg, run.state.balance_usd)
        attempted == signal \in {"BUY", "SELL"} /\ trade_amount > MinTradeSize
        r == IF attempted
             THEN execute_backtest_trade(cfg, run.state, signal, trade_amount,
                      row.usdt_krw_price, row.usd_krw_rate, row.datetime)
             ELSE [state |-> run.state, result |-> None]
        current_balance == FloorEquity(r.state.balance_usd, r.state.balance_krw,
                                       row.usd_krw_rate)
    IN  [run |-> LoopState(r.state,
                    Append(run.daily_returns,
                           FloorDailyReturn(current_balance, run.previous_balance)),
                    IF attempted THEN Append(run.equity_curve, current_balance)
                                 ELSE run.equity_curve,
                    current_balance),
         signal |-> signal, attempted |-> attempted,
         trade_amount |-> trade_amount, r |-> r]

\* a faulty variant: a signal is traded whatever the amount
ProcessRow_no_floor(cfg, run, row) ==
    LET signal == calculate_signal(cfg, row)
        trade_amount == FloorTradeAmount(cfg, run.state.balance_usd)
        attempted == signal \in {"BUY", "SELL"}
        r == IF attempted
             THEN execute_backtest_trade(cfg, run.state, signal, trade_amount,
                      row.usdt_krw_price, row.usd_krw_rate, row.datetime)
             ELSE [state |-> run.state, result |-> None]
        current_balance == FloorEquity(r.state.balance_usd, r.state.balance_krw,
                                       row.usd_krw_rate)
    IN  [run |-> LoopState(r.state,
                    Append(run.daily_returns,
                           FloorDailyReturn(current_balance, run.previous_balance)),
                    Append(run.equity_curve, current_balance),
                    current_balance),
         signal |-> signal, attempted |-> attempted,
         trade_amount |-> trade_amount, r |-> r]

\* the body of the loop over historical_data, at row: the loop state after
\* it, and the signal and the executor's answer for the properties
ProcessRow(cfg, run, row) ==
    LET signal == calculate_signal(cfg, row)
        trade_amount == FloorTradeAmount(cfg, run.state.balance_usd)
        attempted == signal \in {"BUY", "SELL"} /\ trade_amount > MinTradeSize
        r == IF attempted
             THEN execute_backtest_trade(cfg, run.state, signal, trade_amount,
                      row.usdt_krw_price, row.usd_krw_rate, row.datetime)
             ELSE [state |-> run.state, result |-> None]
        current_balance == FloorEquity(r.state.balance_usd, r.state.balance_krw,
                                       row.usd_krw_rate)
    IN  [run |-> LoopState(r.state,
                    Append(run.daily_returns,
                           FloorDailyReturn(current_balance, run.previous_balance)),
                    Append(run.equity_curve, current_balance),
                    current_balance),
         signal |-> signal, attempted |-> attempted,
         trade_amount |-> trade_amount, r |-> r]

\* one iteration of the loop over historical_data
LoopBody ==
    LET row == historical_data[row_index + 1]
        p == ProcessRow(config,
                        LoopState(ExecutorState, daily_returns, equity_curve,
                                  previous_balance),
                        row)
    IN  /\ pc = "loop"
        /\ row_index < Len(historical_data)
        /\ balance_usd' = p.run.state.balance_usd
        /\ balance_krw' = p.run.state.balance_krw
        /\ trades' = p.run.state.trades
        /\ daily_trade_count' = p.run.state.daily_trade_count
        /\ last_trade_date' = p.run.state.last_trade_date
        /\ daily_returns' = p.run.daily_returns
        /\ equity_curve' = p.run.equity_curve
        /\ previous_balance' = p.run.previous_balance
        /\ row_index' = row_index + 1
        /\ step_log' = Append(step_log,
               [row |-> row, signal |-> p.signal, attempted |-> p.attempted,
                call |-> IF p.attempted
                         THEN CallRecord(p.signal, p.trade_amount,
                                         row.usdt_krw_price, row.usd_krw_rate,
                                         row.datetime, p.r)
                         ELSE None])
        /\ UNCHANGED <<config, current_position, calls, now, pc, run_args,
                       historical_data, data_source, result, btc_vars, other_vars>>

RunStep == LoopBody /\ UNCHANGED session_vars

\* the loop is over: run_backtest returns its BacktestResult, filled from
\* calculate_performance_metrics
ReturnResult ==
    /\ pc = "loop"
    /\ row_index = Len(historical_data)
    /\ pc' = "done"
    /\ result' = calculate_performance_metrics(config, balance_usd, balance_krw,
                                                trades, equity_curve)
    /\ UNCHANGED <<enhanced_vars, caller_vars, run_args, historical_data,
                   data_source, row_index, previous_balance, step_log, btc_vars,
                   other_vars>>

RunFinish == ReturnResult /\ UNCHANGED session_vars

-----------------------------------------------------------------------------
(* BitcoinBacktester                                                          *)
(*                                                                            *)
(* Units: a size is a whole number of 0.001 BTC (the minimum order size), a   *)
(* price is per 0.001 BTC, upbit_close in KRW and binance_close in USDT, a    *)
(* KRW amount a whole number of KRW, a USDT amount a whole number of cents;   *)
(* rates are n/10000, position_portion and upbit_krw_fee are percents. Every  *)
(* product with a rate is rounded down to the unit.                           *)

\* rows of one simulate_trades
MaxBtcRows == 4

\* fetch_historical_data's placeholder df['usd_krw_rate']
PlaceholderUsdKrw == 1350
\* simulate_trades' fixed rate for the initial capital
BtcApproxRate == 1300
\* simulate_trades' minimum order size, in 0.001 BTC
MinOrderSize == 1
\* the original strategy's limit on open positions
MaxOriginalPositions == 3

\* entry and exit levels, in tenths of a percent, in the order of the lists
ScaledEntryLevels == <<0, -5, -10, -15, -20, -25, -30, -35, -40>>
ScaledExitLevels == <<5, 10, 15, 20, 25, 30, 35, 40>>

DefaultBtcConfig ==
    [initial_balance_krw |-> 13500000, initial_balance_usdt |-> 500000,
     initial_btc |-> 0,
     entry_premium_threshold |-> -20, exit_profit_threshold |-> 20,
     max_position_size_btc |-> 100, leverage_multiplier |-> 2,
     upbit_commission |-> 25, binance_commission |-> 10,
     binance_funding_rate |-> 1, upbit_krw_fee |-> 2,
     use_scaled_strategy |-> TRUE, position_portion |-> 25]

\* the default configuration, one with half of the capital per position, and
\* the original (unscaled) strategy
BtcConfigs ==
    {DefaultBtcConfig,
     [DefaultBtcConfig EXCEPT !.position_portion = 50],
     [DefaultBtcConfig EXCEPT !.use_scaled_strategy = FALSE],
     [DefaultBtcConfig EXCEPT !.initial_btc = 5]}

\* rows (upbit_close, binance_close): premiums of -0.6%, -2.2%, -4.4% at
\* Binance 100, and a premium of +3.1% at Binance 98
BtcRows ==
    {[upbit_close |-> 134190, binance_close |-> 100],
     [upbit_close |-> 132030, binance_close |-> 100],
     [upbit_close |-> 129000, binance_close |-> 100],
     [upbit_close |-> 136350, binance_close |-> 98]}

\* df['binance_btc_krw'] and df['kimchi_premium'] < level (tenths of a percent)
BinanceBtcKrw(row) == row.binance_close * PlaceholderUsdKrw
PremiumUnder(row, level) ==
    (row.upbit_close - BinanceBtcKrw(row)) * 1000 < level * BinanceBtcKrw(row)
\* kimchi_premium in hundredths of a percent (rounded down), as recorded
FloorPremium(row) ==
    ((row.upbit_close - BinanceBtcKrw(row)) * 10000) \div BinanceBtcKrw(row)

\* funding income in cents: position_value_usdt * funding_rate * hours_held / 8
calculate_funding_income(cfg, position_value_usdt, hours_held) ==
    (position_value_usdt * cfg.binance_funding_rate * hours_held) \div (10000 * 8)

\* a faulty variant: a level is offered again after it was used
EntryLevelsOffered_reusing(cfg, row, used, n_open) ==
    IF cfg.use_scaled_strategy
    THEN SelectSeq(ScaledEntryLevels,
                   LAMBDA level : /\ PremiumUnder(row, level)
                                  /\ n_open < Len(ScaledEntryLevels))
    ELSE IF PremiumUnder(row, cfg.entry_premium_threshold)
            /\ n_open < MaxOriginalPositions
         THEN <<cfg.entry_premium_threshold>> ELSE << >>

\* the levels at which the entry code goes on to size a position at this row,
\* in the order it tries them (the original strategy has its one threshold)
EntryLevelsOffered(cfg, row, used, n_open) ==
    IF cfg.use_scaled_strategy
    THEN SelectSeq(ScaledEntryLevels,
                   LAMBDA level : /\ PremiumUnder(row, level)
                                  /\ level \notin used
                                  /\ n_open < Len(ScaledEntryLevels))
    ELSE IF PremiumUnder(row, cfg.entry_premium_threshold)
            /\ n_open < MaxOriginalPositions
         THEN <<cfg.entry_premium_threshold>> ELSE << >>

\* n * 0.95 / price, rounded down to 0.001 BTC
FloorMaxBtc(n, price) == (n * 95) \div (price * 100)

\* position_size: the scaled strategy sizes on a portion of the initial
\* capital, the original one on the current balances
PositionSize(cfg, row, krw, usdt) ==
    LET initial_total_krw == cfg.initial_balance_krw
                             + (cfg.initial_balance_usdt * BtcApproxRate) \div 100
        available_krw == IF cfg.use_scaled_strategy
                         THEN (initial_total_krw * cfg.position_portion) \div 100
                         ELSE krw
        \* whole USDT
        available_usdt == IF cfg.use_scaled_strategy
                          THEN (cfg.initial_balance_usdt * cfg.position_portion) \div 10000
                          ELSE usdt \div 100
    IN  Min(cfg.max_position_size_btc,
            Min(FloorMaxBtc(available_krw, row.upbit_close),
                FloorMaxBtc(available_usdt * cfg.leverage_multiplier,
                            row.binance_close)))

\* a faulty variant: a position of any size is opened, the minimum is not tested
Entry_any_size(cfg, row, time, used, n_open, krw, usdt) ==
    LET offered == EntryLevelsOffered(cfg, row, used, n_open)
        size == PositionSize(cfg, row, krw, usdt)
        upbit_cost == FloorMulDiv(size * row.upbit_close,
                                  10000 + cfg.upbit_commission, 10000)
        krw_deposit_income == IF cfg.use_scaled_strategy
                              THEN FloorMulDiv(upbit_cost, cfg.upbit_krw_fee, 100)
                              ELSE 0
        total_upbit_cost == upbit_cost - krw_deposit_income
        margin == (size * row.binance_close * 100) \div cfg.leverage_multiplier
        proceeds == FloorMulDiv(size * row.binance_close * 100,
                                10000 - cfg.binance_commission, 10000)
        position == [entry_time |-> time,
                     entry_premium |-> FloorPremium(row),
                     size |-> size,
                     upbit_entry_price |-> row.upbit_close,
                     binance_entry_price |-> row.binance_close,
                     upbit_cost_krw |-> total_upbit_cost,
                     binance_margin_usdt |-> margin,
                     binance_proceeds_usdt |-> proceeds,
                     leverage |-> cfg.leverage_multiplier]
    IN  IF \/ Len(offered) = 0
           \/ krw < total_upbit_cost
           \/ usdt < margin
        THEN << >>
        ELSE IF cfg.use_scaled_strategy
             THEN <<position @@ [entry_level |-> offered[1]]>>
             ELSE <<position>>

\* the entry at a row: the position opened, or none when no level is offered,
\* the size is under the minimum or a balance is short; only a position of
\* the scaled strategy has an entry_level
Entry(cfg, row, time, used, n_open, krw, usdt) ==
    LET offered == EntryLevelsOffered(cfg, row, used, n_open)
        size == PositionSize(cfg, row, krw, usdt)
        upbit_cost == FloorMulDiv(size * row.upbit_close,
                                  10000 + cfg.upbit_commission, 10000)
        krw_deposit_income == IF cfg.use_scaled_strategy
                              THEN FloorMulDiv(upbit_cost, cfg.upbit_krw_fee, 100)
                              ELSE 0
        total_upbit_cost == upbit_cost - krw_deposit_income
        margin == (size * row.binance_close * 100) \div cfg.leverage_multiplier
        proceeds == FloorMulDiv(size * row.binance_close * 100,
                                10000 - cfg.binance_commission, 10000)
        position == [entry_time |-> time,
                     entry_premium |-> FloorPremium(row),
                     size |-> size,
                     upbit_entry_price |-> row.upbit_close,
                     binance_entry_price |-> row.binance_close,
                     upbit_cost_krw |-> total_upbit_cost,
                     binance_margin_usdt |-> margin,
                     binance_proceeds_usdt |-> proceeds,
                     leverage |-> cfg.leverage_multiplier]
    IN  IF \/ Len(offered) = 0
           \/ size < MinOrderSize
           \/ krw < total_upbit_cost
           \/ usdt < margin
        THEN << >>
        ELSE IF cfg.use_scaled_strategy
             THEN <<position @@ [entry_level |-> offered[1]]>>
             ELSE <<position>>

\* total_profit_percentage > level (tenths of a percent), the mean of the two
\* legs' profit percentages
ProfitOver(pos, row, level) ==
    ((row.upbit_close - pos.upbit_entry_price) * pos.binance_entry_price
        + (pos.binance_entry_price - row.binance_close) * pos.upbit_entry_price) * 500
    > level * pos.upbit_entry_price * pos.binance_entry_price

\* a faulty variant: an exit level is offered whether or not it was used
ExitLevelFor_reusing(cfg, pos, row, used) ==
    LET passed == SelectSeq(ScaledExitLevels,
                            LAMBDA level : /\ ProfitOver(pos, row, level)
                                           /\ pos.entry_level <= -5)
    IN  IF cfg.use_scaled_strategy
        THEN SubSeq(passed, 1, Min(1, Len(passed)))
        ELSE IF ProfitOver(pos, row, cfg.exit_profit_threshold)
             THEN <<cfg.exit_profit_threshold>> ELSE << >>

\* a faulty variant: a position entered at any level may be flagged for exit
ExitLevelFor_any_entry(cfg, pos, row, used) ==
    LET passed == SelectSeq(ScaledExitLevels,
                            LAMBDA level : /\ ProfitOver(pos, row, level)
                                           /\ level \notin used)
    IN  IF cfg.use_scaled_strategy
        THEN SubSeq(passed, 1, Min(1, Len(passed)))
        ELSE IF ProfitOver(pos, row, cfg.exit_profit_threshold)
             THEN <<cfg.exit_profit_threshold>> ELSE << >>

\* the exit level at which position pos is flagged at this row, if any
ExitLevelFor(cfg, pos, row, used) ==
    LET passed == SelectSeq(ScaledExitLevels,
                            LAMBDA level : /\ ProfitOver(pos, row, level)
                                           /\ level \notin used
                                           /\ pos.entry_level <= -5)
    IN  IF cfg.use_scaled_strategy
        THEN SubSeq(passed, 1, Min(1, Len(passed)))
        ELSE IF ProfitOver(pos, row, cfg.exit_profit_threshold)
             THEN <<cfg.exit_profit_threshold>> ELSE << >>

\* positions_to_close: the (index, exit level) pairs flagged from position i
\* on, with the exit levels used so far
RECURSIVE PositionsToClose(_, _, _, _, _, _)
PositionsToClose(cfg, positions, row, i, used, flagged) ==
    IF i > Len(positions) THEN [flagged |-> flagged, used |-> used]
    ELSE LET level == ExitLevelFor(cfg, positions[i], row, used)
         IN  IF Len(level) = 0
             THEN PositionsToClose(cfg, positions, row, i + 1, used, flagged)
             ELSE PositionsToClose(cfg, positions, row, i + 1,
                      IF cfg.use_scaled_strategy THEN used \cup {level[1]} ELSE used,
                      Append(flagged, [i |-> i, exit_level |-> level[1]]))

\* list.pop(i)
RemoveAt(seq, i) == SubSeq(seq, 1, i - 1) \o SubSeq(seq, i + 1, Len(seq))

\* the books simulate_trades keeps while closing
Books(krw, usdt, btc, positions, log) ==
    [balance_krw |-> krw, balance_usdt |-> usdt, balance_btc |-> btc,
     open_positions |-> positions, trades |-> log]

\* what closing position pos at row brings and costs
FundingIncome(cfg, pos, time) ==
    calculate_funding_income(cfg, pos.size * pos.binance_entry_price * 100,
                             time - pos.entry_time)
NetUpbitProceeds(cfg, pos, row) ==
    LET upbit_proceeds == FloorMulDiv(pos.size * row.upbit_close,
                                      10000 - cfg.upbit_commission, 10000)
        krw_withdrawal_income == FloorMulDiv(upbit_proceeds, cfg.upbit_krw_fee, 100)
    IN  upbit_proceeds + krw_withdrawal_income
BinanceCost(cfg, pos, row) ==
    FloorMulDiv(pos.size * row.binance_close * 100,
                10000 + cfg.binance_commission, 10000)

\* the EXIT record of position pos closed at row, at exit_level
ExitTrade(cfg, pos, row, time, exit_level) ==
    LET funding_income == FundingIncome(cfg, pos, time)
        upbit_pnl_krw == NetUpbitProceeds(cfg, pos, row) - pos.upbit_cost_krw
        binance_pnl_usdt == pos.binance_proceeds_usdt - BinanceCost(cfg, pos, row)
                            + funding_income
    IN  [time |-> time, type |-> "EXIT", premium |-> FloorPremium(row),
         exit_level |-> exit_level, size |-> pos.size,
         upbit_price |-> row.upbit_close,
         binance_price |-> row.binance_close,
         upbit_pnl_krw |-> upbit_pnl_krw,
         binance_pnl_usdt |-> binance_pnl_usdt,
         funding_income_usdt |-> funding_income,
         total_pnl_krw |-> upbit_pnl_krw
             + (binance_pnl_usdt * PlaceholderUsdKrw) \div 100]

\* a faulty variant: the cost of buying back is settled, the margin is kept
ClosePosition_cost_settled(cfg, b, row, time, i, exit_level) ==
    LET pos == b.open_positions[i]
    IN  Books(b.balance_krw + NetUpbitProceeds(cfg, pos, row),
              b.balance_usdt - BinanceCost(cfg, pos, row),
              b.balance_btc - pos.size,
              RemoveAt(b.open_positions, i),
              Append(b.trades, ExitTrade(cfg, pos, row, time, exit_level)))

\* a faulty variant: the BTC sold stays on the books
ClosePosition_btc_kept(cfg, b, row, time, i, exit_level) ==
    LET pos == b.open_positions[i]
    IN  Books(b.balance_krw + NetUpbitProceeds(cfg, pos, row),
              b.balance_usdt + pos.binance_margin_usdt,
              b.balance_btc,
              RemoveAt(b.open_positions, i),
              Append(b.trades, ExitTrade(cfg, pos, row, time, exit_level)))

\* closing the position at index i of the books b, at exit_level
ClosePosition(cfg, b, row, time, i, exit_level) ==
    LET pos == b.open_positions[i]
    IN  Books(b.balance_krw + NetUpbitProceeds(cfg, pos, row),
              b.balance_usdt + pos.binance_margin_usdt,
              b.balance_btc - pos.size,
              RemoveAt(b.open_positions, i),
              Append(b.trades, ExitTrade(cfg, pos, row, time, exit_level)))

\* a faulty variant: the flagged pairs are closed first to last, each pop
\* moving the positions behind it one index down
RECURSIVE ClosePositions_forward(_, _, _, _, _, _)
ClosePositions_forward(cfg, b, row, time, flagged, k) ==
    IF k = 0 THEN b
    ELSE LET j == Len(flagged) - k + 1
             i == IF flagged[j].i <= Len(b.open_positions)
                  THEN flagged[j].i ELSE Len(b.open_positions)
         IN  ClosePositions_forward(cfg,
                 ClosePosition(cfg, b, row, time, i, flagged[j].exit_level),
                 row, time, flagged, k - 1)

\* for i, exit_level in reversed(positions_to_close): the last k flagged
\* pairs are still to close
RECURSIVE ClosePositions(_, _, _, _, _, _)
ClosePositions(cfg, b, row, time, flagged, k) ==
    IF k = 0 THEN b
    ELSE ClosePositions(cfg,
             ClosePosition(cfg, b, row, time, flagged[k].i, flagged[k].exit_level),
             row, time, flagged, k - 1)

\* the ENTRY record of a position
EntryTrade(cfg, pos, row) ==
    LET trade == [time |-> pos.entry_time, type |-> "ENTRY",
                  premium |-> pos.entry_premium, size |-> pos.size,
                  upbit_price |-> row.upbit_close,
                  binance_price |-> row.binance_close,
                  leverage |-> pos.leverage]
    IN  IF cfg.use_scaled_strategy
        THEN trade @@ [entry_level |-> pos.entry_level]
        ELSE trade

\* one iteration of simulate_trades' loop over df, at row, from the books b:
\* the entry, the books after it, the positions flagged for exit and the books
\* after closing them
SimulateStep(cfg, row, time, b, used_entry, used_exit) ==
    LET entered == Entry(cfg, row, time, used_entry, Len(b.open_positions),
                         b.balance_krw, b.balance_usdt)
        after_entry ==
            IF Len(entered) = 0 THEN b
            ELSE Books(b.balance_krw - entered[1].upbit_cost_krw,
                       b.balance_usdt - entered[1].binance_margin_usdt,
                       b.balance_btc + entered[1].size,
                       Append(b.open_positions, entered[1]),
                       Append(b.trades, EntryTrade(cfg, entered[1], row)))
        scan == PositionsToClose(cfg, after_entry.open_positions, row, 1,
                                 used_exit, << >>)
    IN  [entered |-> entered,
         after_entry |-> after_entry,
         positions_to_close |-> scan.flagged,
         used_entry_levels |->
             IF Len(entered) > 0 /\ cfg.use_scaled_strategy
             THEN used_entry \cup {entered[1].entry_level} ELSE used_entry,
         used_exit_levels |-> scan.used,
         books |-> ClosePositions(cfg, after_entry, row, time, scan.flagged,
                                  Len(scan.flagged))]

\* balance_krw + balance_usdt * usd_krw_rate + balance_btc * upbit_close
TotalValueKrw(krw, usdt, btc, row) ==
    krw + (usdt * PlaceholderUsdKrw) \div 100 + btc * row.upbit_close

\* what run_backtest returns
NoBtcResult == [status |-> "none"]
NoData == [status |-> "error", error |-> "No historical data available"]

\* a faulty variant: the positions still open are closed at the last row
simulate_results_force_closed(cfg, rows, b) ==
    LET last == rows[Len(rows)]
        n == Len(b.open_positions)
        closed == ClosePositions(cfg, b, last, Len(rows),
                      [k \in 1..n |-> [i |-> k, exit_level |-> 0]], n)
        final_value_krw == TotalValueKrw(closed.balance_krw, closed.balance_usdt,
                                         closed.balance_btc, last)
        initial_value_krw == TotalValueKrw(cfg.initial_balance_krw,
                                           cfg.initial_balance_usdt, 0, rows[1])
    IN  [status |-> "ok",
         trades |-> closed.trades,
         final_balance_krw |-> closed.balance_krw,
         final_balance_usdt |-> closed.balance_usdt,
         final_balance_btc |-> closed.balance_btc,
         final_value_krw |-> final_value_krw,
         initial_value_krw |-> initial_value_krw,
         total_return_krw |-> final_value_krw - initial_value_krw,
         total_trades |-> Cardinality({k \in 1..Len(closed.trades) :
                                          closed.trades[k].type = "ENTRY"}),
         open_positions |-> Len(closed.open_positions),
         data_points |-> Len(rows)]

\* the dict simulate_trades returns for the books b, with run_backtest's
\* data_points and without the return_percentage and the balance_history
simulate_results(cfg, rows, b) ==
    LET last == rows[Len(rows)]
        final_value_krw == TotalValueKrw(b.balance_krw, b.balance_usdt,
                                         b.balance_btc, last)
        initial_value_krw == TotalValueKrw(cfg.initial_balance_krw,
                                           cfg.initial_balance_usdt, 0, rows[1])
    IN  [status |-> "ok",
         trades |-> b.trades,
         final_balance_krw |-> b.balance_krw,
         final_balance_usdt |-> b.balance_usdt,
         final_balance_btc |-> b.balance_btc,
         final_value_krw |-> final_value_krw,
         initial_value_krw |-> initial_value_krw,
         total_return_krw |-> final_value_krw - initial_value_krw,
         total_trades |-> Cardinality({k \in 1..Len(b.trades) :
                                          b.trades[k].type = "ENTRY"}),
         open_positions |-> Len(b.open_positions),
         data_points |-> Len(rows)]

\* a constructed BitcoinBacktester with configuration cfg
InitBitcoin(cfg) ==
    /\ btc_config = cfg
    /\ btc_pc = "idle"
    /\ btc_fetch = "none"
    /\ df = << >>
    /\ idx = 0
    /\ btc_balance_krw = 0
    /\ btc_balance_usdt = 0
    /\ btc_balance_btc = 0
    /\ btc_trades = << >>
    /\ open_positions = << >>
    /\ balance_history = << >>
    /\ used_entry_levels = {}
    /\ used_exit_levels = {}
    /\ btc_result = NoBtcResult

\* run_backtest up to the loop of simulate_trades: a fetch that raises returns
\* an empty frame, and on an empty frame run_backtest returns
\* {'error': 'No historical data available'}
BtcRunStart(outcome, rows) ==
    /\ btc_fetch' = outcome
    /\ IF outcome = "candles"
       THEN /\ df' = rows
            /\ btc_pc' = "loop"
            /\ btc_result' = btc_result
            /\ btc_balance_krw' = btc_config.initial_balance_krw
            /\ btc_balance_usdt' = btc_config.initial_balance_usdt
            /\ btc_balance_btc' = btc_config.initial_btc
       ELSE /\ df' = << >>
            /\ btc_pc' = "error"
            /\ btc_result' = NoData
            /\ UNCHANGED <<btc_balance_krw, btc_balance_usdt, btc_balance_btc>>
    /\ UNCHANGED <<btc_config, idx, btc_trades, open_positions, balance_history,
                   used_entry_levels, used_exit_levels>>
    /\ UNCHANGED <<enhanced_vars, caller_vars, run_vars, session_vars, other_vars>>

BtcRunBacktest ==
    /\ btc_pc = "idle"
    /\ \E outcome \in FetchOutcomes :
        \E rows \in IF outcome = "candles"
                    THEN UNION {[1..n -> BtcRows] : n \in 1..MaxBtcRows}
                    ELSE {<< >>} :
            BtcRunStart(outcome, rows)

\* one iteration of simulate_trades' loop over df
BtcStep ==
    LET row == df[idx + 1]
        time == idx + 1
        step == SimulateStep(btc_config, row, time,
                    Books(btc_balance_krw, btc_balance_usdt, btc_balance_btc,
                          open_positions, btc_trades),
                    used_entry_levels, used_exit_levels)
        b == step.books
    IN  /\ btc_pc = "loop"
        /\ idx < Len(df)
        /\ idx' = time
        /\ btc_balance_krw' = b.balance_krw
        /\ btc_balance_usdt' = b.balance_usdt
        /\ btc_balance_btc' = b.balance_btc
        /\ open_positions' = b.open_positions
        /\ btc_trades' = b.trades
        /\ used_entry_levels' = step.used_entry_levels
        /\ used_exit_levels' = step.used_exit_levels
        /\ balance_history' = Append(balance_history,
               [time |-> time, balance_krw |-> b.balance_krw,
                balance_usdt |-> b.balance_usdt, balance_btc |-> b.balance_btc,
                total_value_krw |-> TotalValueKrw(b.balance_krw, b.balance_usdt,
                                                  b.balance_btc, row),
                premium |-> FloorPremium(row)])
        /\ UNCHANGED <<btc_config, btc_pc, btc_fetch, df, btc_result>>
        /\ UNCHANGED <<enhanced_vars, caller_vars, run_vars, session_vars, other_vars>>

\* the loop is over: simulate_trades returns its results
BtcFinish ==
    /\ btc_pc = "loop"
    /\ idx = Len(df)
    /\ btc_pc' = "done"
    /\ btc_result' = simulate_results(btc_config, df,
                          Books(btc_balance_krw, btc_balance_usdt, btc_balance_btc,
                                open_positions, btc_trades))
    /\ UNCHANGED <<btc_config, btc_fetch, df, idx, btc_balance_krw,
                   btc_balance_usdt, btc_balance_btc, btc_trades, open_positions,
                   balance_history, used_entry_levels, used_exit_levels>>
    /\ UNCHANGED <<enhanced_vars, caller_vars, run_vars, session_vars, other_vars>>

-----------------------------------------------------------------------------
(* Sessions on one EnhancedUpbitBacktest: a second run_backtest on the same   *)
(* object, and the web application's run with its progress wrapper            *)

MaxSweepRows == 1
MaxReruns == 1

\* the rows _generate_synthetic_data may draw for a run of MaxSweepRows days
SyntheticRows ==
    [1..Len(DateRange(StartDate, StartDate + MaxSweepRows - 1)) -> FairRows]

\* run_backtest(start_date, end_date, use_real_data=False) on a new object
RunSynthetic ==
    /\ pc = "idle"
    /\ calls = << >>
    /\ \E rows \in SyntheticRows :
        RunStart(FALSE, "none", StartDate + MaxSweepRows - 1, rows)
    /\ UNCHANGED session_vars

\* the same call again on the object once it has returned: reset_state, and
\* the generator draws its rows anew from numpy's global generator
RunAgain ==
    /\ pc = "done"
    /\ Len(previous_runs) < MaxReruns
    /\ previous_runs' = Append(previous_runs,
           [run_args |-> run_args, historical_data |-> historical_data,
            result |-> result, trades |-> trades, equity_curve |-> equity_curve])
    /\ \E rows \in SyntheticRows :
        RunStart(run_args.use_real_data, run_args.fetch, run_args.end_date, rows)
    /\ UNCHANGED <<progress_attached, progress_messages>>

\* execute_backtest's run_with_progress up to the loop of run_backtest: the
\* strategy's calculate_signal is replaced by progress_aware_calculate_signal
RunWithProgress ==
    /\ pc = "idle"
    /\ calls = << >>
    /\ progress_attached' = TRUE
    /\ \E end_date \in 0..MaxRows :
        \E rows \in [1..Len(DateRange(StartDate, end_date)) -> FairRows] :
            RunStart(FALSE, "none", end_date, rows)
    /\ UNCHANGED <<previous_runs, progress_messages>>

\* progress_aware_calculate_signal at its current_day-th call: every
\* max(1, total_days // 20) calls it computes
\* 30 + int((current_day / total_days) * 60), which raises ZeroDivisionError
\* when total_days is 0, and sends min(90, progress)
ProgressCall(total_days, current_day) ==
    LET every == IF total_days \div 20 > 1 THEN total_days \div 20 ELSE 1
    IN  IF current_day % every # 0 THEN [raises |-> FALSE, sent |-> << >>]
        ELSE IF total_days = 0 THEN [raises |-> TRUE, sent |-> << >>]
        ELSE [raises |-> FALSE,
              sent |-> <<Min(90, 30 + (current_day * 60) \div total_days)>>]

\* one iteration of the loop with the wrapper installed: the wrapper runs
\* first; what it raises leaves run_backtest, whose caller reports the error
StepWithProgress ==
    LET total_days == run_args.end_date - run_args.start_date
        called == ProgressCall(total_days, row_index + 1)
    IN  /\ pc = "loop"
        /\ progress_attached
        /\ row_index < Len(historical_data)
        /\ IF called.raises
           THEN /\ pc' = "aborted"
                /\ UNCHANGED <<enhanced_vars, caller_vars, run_args, historical_data,
                               data_source, row_index, previous_balance, step_log,
                               result, btc_vars, other_vars, progress_messages>>
           ELSE /\ LoopBody
                /\ progress_messages' = progress_messages \o called.sent
        /\ UNCHANGED <<previous_runs, progress_attached>>

\* run_backtest returns and the original calculate_signal is restored
FinishWithProgress ==
    /\ progress_attached
    /\ ReturnResult
    /\ progress_attached' = FALSE
    /\ UNCHANGED <<previous_runs, progress_messages>>

InitSession ==
    /\ previous_runs = << >>
    /\ progress_attached = FALSE
    /\ progress_messages = << >>

-----------------------------------------------------------------------------
(* optimize_parameters: a sweep of run_backtest over parameter combinations   *)

CombinationLimit == 100

\* run_backtest(start_date, end_date, use_real_data=False) on a newly
\* constructed EnhancedUpbitBacktest(cfg), over the synthetic frame data: the
\* loop over the rows, then the metrics
RECURSIVE RunLoop(_, _, _, _)
RunLoop(cfg, run, data, i) ==
    IF i > Len(data) THEN run
    ELSE RunLoop(cfg, ProcessRow(cfg, run, data[i]).run, data, i + 1)

BacktestRun(cfg, data) ==
    LET st == reset_state(cfg)
        start == LoopState([balance_usd |-> st.balance_usd,
                            balance_krw |-> st.balance_krw,
                            trades |-> st.trades,
                            daily_trade_count |-> st.daily_trade_count,
                            last_trade_date |-> st.last_trade_date],
                           st.daily_returns, st.equity_curve,
                           cfg.initial_balance_usd * Scale)
        end == RunLoop(cfg, start, data, 1)
    IN  calculate_performance_metrics(cfg, end.state.balance_usd,
            end.state.balance_krw, end.state.trades, end.equity_curve)

\* the frames _generate_synthetic_data may draw for the dates of the sweep
SweepFrames ==
    {LoadData(FALSE, "none", DateRange(StartDate, StartDate + MaxSweepRows - 1),
              rows).data : rows \in SyntheticRows}

\* param_ranges, each range as the values np.arange yields for it
ParamRanges ==
    {[price_threshold |-> << >>, max_trade_amount |-> <<400>>,
      stop_loss_threshold |-> <<20>>],
     [price_threshold |-> <<1, 3>>, max_trade_amount |-> <<400>>,
      stop_loss_threshold |-> <<20>>],
     [price_threshold |-> <<5>>, max_trade_amount |-> <<120, 400>>,
      stop_loss_threshold |-> <<10, 20>>]}

\* _generate_param_combinations: the nested loops, cut to the first 100
generate_param_combinations(param_ranges) ==
    LET P == param_ranges.price_threshold
        M == param_ranges.max_trade_amount
        S == param_ranges.stop_loss_threshold
        n == Len(P) * Len(M) * Len(S)
        combinations ==
            [k \in 1..n |->
                [price_threshold |-> P[((k - 1) \div (Len(M) * Len(S))) + 1],
                 max_trade_amount |-> M[(((k - 1) \div Len(S)) % Len(M)) + 1],
                 stop_loss_threshold |-> S[((k - 1) % Len(S)) + 1]]]
    IN  SubSeq(combinations, 1, Min(n, CombinationLimit))

\* BacktestConfig(**{**asdict(self.config), **params})
TestConfig(cfg, params) ==
    [cfg EXCEPT !.price_threshold = params.price_threshold,
                !.max_trade_amount = params.max_trade_amount,
                !.stop_loss_threshold = params.stop_loss_threshold]

\* float('-inf')
MinusInfinity == [inf |-> TRUE, value |-> 0 - 1]

\* what optimize_parameters collects
Collected(all_results, best, params) ==
    [results |-> all_results, best_return |-> best, best_params |-> params]

\* a faulty variant: a run as good as the best so far replaces it
TryCombination_last_best(acc, params, run) ==
    IF run.raised THEN acc
    ELSE LET r == run.result
             better == acc.best_return.inf
                       \/ r.return_percentage >= acc.best_return.value
         IN  Collected(Append(acc.results,
                           [params |-> params,
                            return_percentage |-> r.return_percentage,
                            max_drawdown |-> r.max_drawdown,
                            win_rate |-> r.win_rate,
                            total_trades |-> r.total_trades]),
                       IF better THEN Finite(r.return_percentage)
                                 ELSE acc.best_return,
                       IF better THEN <<params>> ELSE acc.best_params)

\* the body of the loop over param_combinations once the run has returned or
\* raised: the except clause only logs and continues
TryCombination(acc, params, run) ==
    IF run.raised THEN acc
    ELSE LET r == run.result
             better == acc.best_return.inf
                       \/ r.return_percentage > acc.best_return.value
         IN  Collected(Append(acc.results,
                           [params |-> params,
                            return_percentage |-> r.return_percentage,
                            max_drawdown |-> r.max_drawdown,
                            win_rate |-> r.win_rate,
                            total_trades |-> r.total_trades]),
                       IF better THEN Finite(r.return_percentage)
                                 ELSE acc.best_return,
                       IF better THEN <<params>> ELSE acc.best_params)

\* optimize_parameters up to its loop
OptimizeParameters(param_ranges) ==
    /\ sweep_pc = "idle"
    /\ sweep_pc' = "loop"
    /\ param_combinations' = generate_param_combinations(param_ranges)
    /\ results' = << >>
    /\ best_return' = MinusInfinity
    /\ best_params' = << >>
    /\ UNCHANGED <<sweep_runs, optimization>>
    /\ UNCHANGED <<enhanced_vars, caller_vars, run_vars, btc_vars, session_vars,
                   desktop_vars, strategy_vars, fetch_vars, bot_vars, ma_vars>>

\* one combination: a new simulator with its own config runs on the frame it
\* draws, or its run raises
SweepRun(raised, data) ==
    LET params == param_combinations[Len(sweep_runs) + 1]
        test_config == TestConfig(config, params)
        run == [params |-> params, config |-> test_config, data |-> data,
                raised |-> raised,
                result |-> IF raised THEN NoResult
                           ELSE BacktestRun(test_config, data)]
        acc == TryCombination(Collected(results, best_return, best_params),
                              params, run)
    IN  /\ sweep_pc = "loop"
        /\ Len(sweep_runs) < Len(param_combinations)
        /\ sweep_runs' = Append(sweep_runs, run)
        /\ results' = acc.results
        /\ best_return' = acc.best_return
        /\ best_params' = acc.best_params
        /\ UNCHANGED <<sweep_pc, param_combinations, optimization>>
        /\ UNCHANGED <<enhanced_vars, caller_vars, run_vars, btc_vars, session_vars,
                       desktop_vars, strategy_vars, fetch_vars, bot_vars, ma_vars>>

\* past the loop: optimize_parameters returns
SweepFinish ==
    /\ sweep_pc = "loop"
    /\ Len(sweep_runs) = Len(param_combinations)
    /\ sweep_pc' = "done"
    /\ optimization' = <<[best_params |-> best_params, best_return |-> best_return,
                          all_results |-> results]>>
    /\ UNCHANGED <<param_combinations, sweep_runs, results, best_return, best_params>>
    /\ UNCHANGED <<enhanced_vars, caller_vars, run_vars, btc_vars, session_vars,
                   desktop_vars, strategy_vars, fetch_vars, bot_vars, ma_vars>>

InitSweep ==
    /\ sweep_pc = "idle"
    /\ param_combinations = << >>
    /\ sweep_runs = << >>
    /\ results = << >>
    /\ best_return = MinusInfinity
    /\ best_params = << >>
    /\ optimization = << >>

-----------------------------------------------------------------------------
(* The desktop application: optimize_boundaries' worker and stop_backtest     *)

price_thresholds == <<1, 3, 5, 7, 10, 15, 20>>
stop_losses == <<10, 15, 20, 30, 50>>
take_profits == <<5, 10, 15, 20, 30>>
total_combinations == Len(price_thresholds) * Len(stop_losses) * Len(take_profits)

\* the BacktestConfig of the worker's k-th combination: threshold in the
\* outer loop, take_profit in the inner one
WorkerConfig(k) ==
    LET per_threshold == Len(stop_losses) * Len(take_profits)
    IN  [DefaultConfig EXCEPT
            !.price_threshold = price_thresholds[((k - 1) \div per_threshold) + 1],
            !.stop_loss_threshold =
                stop_losses[(((k - 1) \div Len(take_profits)) % Len(stop_losses)) + 1],
            !.take_profit_threshold = take_profits[((k - 1) % Len(take_profits)) + 1]]

\* the frames the runs of a worker may get: use_real_data, the exchange
\* answering every fetch of the worker with the same candles
WorkerFrames ==
    LET dates == DateRange(StartDate, StartDate + MaxSweepRows - 1)
    IN  {LoadData(TRUE, "candles", dates, rows).data :
            rows \in [1..Len(dates) -> FairRows]}

\* optimize_boundaries: refused while is_running, else the flag is set and
\* the worker thread is started
OptimizeBoundaries(data) ==
    /\ ~is_running
    /\ worker_pc = "idle"
    /\ is_running' = TRUE
    /\ worker_pc' = "running"
    /\ worker_data' = data
    /\ worker_current' = 0
    /\ worker_results' = << >>
    /\ worker_best' = << >>
    /\ UNCHANGED <<enhanced_vars, caller_vars, run_vars, btc_vars, session_vars,
                   sweep_vars, strategy_vars, fetch_vars, bot_vars, ma_vars>>

\* one turn of the worker's innermost loop (worker_current is its current): the next combination is run on a
\* new simulator and its result_data collected
WorkerRun ==
    LET cfg == WorkerConfig(worker_current + 1)
        r == BacktestRun(cfg, worker_data)
        result_data == [threshold |-> cfg.price_threshold,
                        stop_loss |-> cfg.stop_loss_threshold,
                        take_profit |-> cfg.take_profit_threshold,
                        return_pct |-> r.return_percentage,
                        max_drawdown |-> r.max_drawdown,
                        trades |-> r.total_trades,
                        win_rate |-> r.win_rate]
        better == /\ \/ Len(worker_best) = 0
                     \/ r.return_percentage > worker_best[1].return_pct
                  /\ r.total_trades > 0
    IN  /\ worker_pc = "running"
        /\ worker_current < total_combinations
        /\ worker_current' = worker_current + 1
        /\ worker_results' = Append(worker_results, result_data)
        /\ worker_best' = IF better THEN <<result_data>> ELSE worker_best
        /\ UNCHANGED <<is_running, worker_pc, worker_data>>
        /\ UNCHANGED <<enhanced_vars, caller_vars, run_vars, btc_vars, session_vars,
                       sweep_vars, strategy_vars, fetch_vars, bot_vars, ma_vars>>

\* past the loops the worker queues ("optimization_complete", ...), and
\* process_queue clears the flag when it handles the message
WorkerComplete ==
    /\ worker_pc = "running"
    /\ worker_current = total_combinations
    /\ worker_pc' = "complete"
    /\ is_running' = FALSE
    /\ UNCHANGED <<worker_data, worker_current, worker_results, worker_best>>
    /\ UNCHANGED <<enhanced_vars, caller_vars, run_vars, btc_vars, session_vars,
                   sweep_vars, strategy_vars, fetch_vars, bot_vars, ma_vars>>

\* stop_backtest: the flag is cleared (the progress bar and the status label
\* are not modelled)
StopBacktest ==
    /\ is_running
    /\ is_running' = FALSE
    /\ UNCHANGED <<worker_pc, worker_data, worker_current, worker_results, worker_best>>
    /\ UNCHANGED <<enhanced_vars, caller_vars, run_vars, btc_vars, session_vars,
                   sweep_vars, strategy_vars, fetch_vars, bot_vars, ma_vars>>

InitDesktop ==
    /\ is_running = FALSE
    /\ worker_pc = "idle"
    /\ worker_data = << >>
    /\ worker_current = 0
    /\ worker_results = << >>
    /\ worker_best = << >>

-----------------------------------------------------------------------------
(* BitcoinArbitrageStrategy: the ledger of open positions.                    *)
(* Sizes in 0.001 BTC, prices per 0.001 BTC, premiums in tenths of a percent. *)

MaxEntries == 4

\* BitcoinArbitrageConfig()
DefaultArbitrageConfig ==
    [entry_premium_threshold |-> -20, exit_profit_threshold |-> 20,
     max_position_size_btc |-> 100, tick_offset |-> 1, max_open_positions |-> 3,
     min_order_size_btc |-> 1]

\* the premium_data of a call (without an order book), and the USDT available
PremiumData ==
    [kimchi_premium_percentage : {-25, -10}, binance_btc_usdt : {100},
     upbit_btc_krw : {132030}]
AvailableUsdt == {0, 5000}

calculate_position_size(cfg, available_balance, btc_price) ==
    LET position_size == Min(cfg.max_position_size_btc,
                             FloorMaxBtc(available_balance, btc_price))
    IN  IF position_size < cfg.min_order_size_btc THEN 0 ELSE position_size

should_enter_position(cfg, positions, premium_data) ==
    IF Len(positions) >= cfg.max_open_positions THEN FALSE
    ELSE premium_data.kimchi_premium_percentage < cfg.entry_premium_threshold

\* execute_entry(premium_data, available_krw, available_usdt): the position
\* is sized on the USDT available and appended; a size of 0 returns None
ExecuteEntry(premium_data, available_usdt) ==
    LET cfg == DefaultArbitrageConfig
        position_size == calculate_position_size(cfg, available_usdt,
                                                 premium_data.binance_btc_usdt)
        position == [id |-> position_counter + 1,
                     entry_premium |-> premium_data.kimchi_premium_percentage,
                     size_btc |-> position_size,
                     upbit_entry_price |-> premium_data.upbit_btc_krw,
                     binance_entry_price |-> premium_data.binance_btc_usdt,
                     status |-> "pending_upbit"]
    IN  /\ position_counter < MaxEntries
        /\ IF position_size = 0
           THEN UNCHANGED <<arb_open_positions, position_counter>>
           ELSE /\ position_counter' = position_counter + 1
                /\ arb_open_positions' = Append(arb_open_positions, position)
        /\ UNCHANGED <<enhanced_vars, caller_vars, run_vars, btc_vars, session_vars,
                       sweep_vars, desktop_vars, fetch_vars, bot_vars, ma_vars>>

\* execute_exit(position, premium_data) of an open position: list.remove
ExecuteExit(i) ==
    /\ i \in 1..Len(arb_open_positions)
    /\ arb_open_positions' = RemoveAt(arb_open_positions, i)
    /\ UNCHANGED position_counter
    /\ UNCHANGED <<enhanced_vars, caller_vars, run_vars, btc_vars, session_vars,
                   sweep_vars, desktop_vars, fetch_vars, bot_vars, ma_vars>>

InitStrategy ==
    /\ arb_open_positions = << >>
    /\ position_counter = 0

-----------------------------------------------------------------------------
(* The fetches of candles. A timestamp is a whole number of candle periods;   *)
(* an exchange holds one candle per period from 0 to LastCandle and answers   *)
(* fetch_ohlcv(since, limit) with its first limit candles from since on.      *)

\* the latest candle of the exchanges, and the page limits (1000 candles of
\* Binance, 200 of Upbit) on the model's scale
LastCandle == 6
BinanceLimit == 4
UpbitLimit == 3
\* candles a loop has collected when the model stops following it
MaxFetched == 8

RECURSIVE Range(_, _)
Range(from, to) == IF from > to THEN << >> ELSE <<from>> \o Range(from + 1, to)

\* exchange.fetch_ohlcv(symbol, timeframe, since, limit): the timestamps
fetch_ohlcv(since, limit) == Range(since, Min(since + limit - 1, LastCandle))

\* the latest candles, limit at most, that are not after since + limit - 1:
\* the page of an exchange that serves the candles up to a time
LatestCandles(since, limit) ==
    LET to == Min(since + limit - 1, LastCandle)
    IN  Range(IF to - limit + 1 > 0 THEN to - limit + 1 ELSE 0, to)

\* what a request of a page may be answered with
ExchangePages(since, limit) ==
    {fetch_ohlcv(since, limit), LatestCandles(since, limit)}

\* EnhancedUpbitBacktest.fetch_real_historical_data: one page of at most 1000
\* candles from start_date on, of which those of [start_date, end_date] are kept
fetch_real_historical_data(start_ts, end_ts) ==
    SelectSeq(fetch_ohlcv(start_ts, LastCandle + 1),
              LAMBDA t : t >= start_ts /\ t <= end_ts)

FetchReal(start_ts, end_ts) ==
    /\ fetch_pc = "idle"
    /\ fetch_args' = [by |-> "fetch_real_historical_data",
                      start_ts |-> start_ts, end_ts |-> end_ts]
    /\ fetched' = fetch_real_historical_data(start_ts, end_ts)
    /\ fetch_pc' = "done"
    /\ UNCHANGED <<current_ts, binance_data, upbit_data>>
    /\ UNCHANGED <<enhanced_vars, caller_vars, run_vars, btc_vars, session_vars,
                   sweep_vars, desktop_vars, strategy_vars, bot_vars, ma_vars>>

\* BitcoinBacktester.fetch_historical_data up to its first loop
FetchHistoricalData(start_ts, end_ts) ==
    /\ fetch_pc = "idle"
    /\ fetch_args' = [by |-> "fetch_historical_data",
                      start_ts |-> start_ts, end_ts |-> end_ts]
    /\ current_ts' = start_ts
    /\ binance_data' = << >>
    /\ fetch_pc' = "binance"
    /\ UNCHANGED <<upbit_data, fetched>>
    /\ UNCHANGED <<enhanced_vars, caller_vars, run_vars, btc_vars, session_vars,
                   sweep_vars, desktop_vars, strategy_vars, bot_vars, ma_vars>>

\* one turn of 'while current_ts < end_ts' over Binance: a page is appended
\* whole; past the loop the Upbit loop starts from start_ts again
BinancePage ==
    \E ohlcv \in ExchangePages(current_ts, BinanceLimit) :
        /\ fetch_pc = "binance"
        /\ Len(binance_data) <= MaxFetched
        /\ IF current_ts < fetch_args.end_ts /\ Len(ohlcv) > 0
           THEN /\ binance_data' = binance_data \o ohlcv
                /\ current_ts' = ohlcv[Len(ohlcv)] + 1
                /\ UNCHANGED <<fetch_pc, upbit_data>>
           ELSE /\ fetch_pc' = "upbit"
                /\ current_ts' = fetch_args.start_ts
                /\ upbit_data' = << >>
                /\ UNCHANGED binance_data
        /\ UNCHANGED <<fetch_args, fetched>>
        /\ UNCHANGED <<enhanced_vars, caller_vars, run_vars, btc_vars, session_vars,
                       sweep_vars, desktop_vars, strategy_vars, bot_vars, ma_vars>>

\* pd.merge(binance_df, upbit_df, left_index=True, right_index=True, how='inner')
MergeInner(left, right) ==
    SelectSeq(left, LAMBDA t : \E k \in 1..Len(right) : right[k] = t)

\* one turn of the loop over Upbit; past the loop the two frames are merged
\* and the frame is returned
UpbitPage ==
    \E ohlcv \in ExchangePages(current_ts, UpbitLimit) :
        /\ fetch_pc = "upbit"
        /\ Len(upbit_data) <= MaxFetched
        /\ IF current_ts < fetch_args.end_ts /\ Len(ohlcv) > 0
           THEN /\ upbit_data' = upbit_data \o ohlcv
                /\ current_ts' = ohlcv[Len(ohlcv)] + 1
                /\ UNCHANGED <<fetch_pc, fetched>>
           ELSE /\ fetch_pc' = "done"
                /\ fetched' = MergeInner(binance_data, upbit_data)
                /\ UNCHANGED <<current_ts, upbit_data>>
        /\ UNCHANGED <<fetch_args, binance_data>>
        /\ UNCHANGED <<enhanced_vars, caller_vars, run_vars, btc_vars, session_vars,
                       sweep_vars, desktop_vars, strategy_vars, bot_vars, ma_vars>>

\* a request of either loop raises: the except clause returns an empty frame
FetchRaises ==
    /\ fetch_pc \in {"binance", "upbit"}
    /\ fetch_pc' = "done"
    /\ fetched' = << >>
    /\ UNCHANGED <<fetch_args, current_ts, binance_data, upbit_data>>
    /\ UNCHANGED <<enhanced_vars, caller_vars, run_vars, btc_vars, session_vars,
                   sweep_vars, desktop_vars, strategy_vars, bot_vars, ma_vars>>

InitFetch ==
    /\ fetch_pc = "idle"
    /\ fetch_args = [by |-> "none", start_ts |-> 0, end_ts |-> 0]
    /\ current_ts = 0
    /\ binance_data = << >>
    /\ upbit_data = << >>
    /\ fetched = << >>

\* nothing but the EnhancedUpbitBacktest and the BitcoinBacktester has started
-----------------------------------------------------------------------------
(* EnhancedBitcoinBacktester.simulate_trades_with_ma                          *)
(* (src/run_bitcoin_backtest_ma.py), on the configuration btc_config          *)
(*                                                                            *)
(* Units as for BitcoinBacktester; a strength is a whole number of            *)
(* hundredths and a threshold a whole number of hundredths of a percent,      *)
(* both rounded down.  ma_14 is the 336-row rolling mean of binance_close,    *)
(* taken as a value of the row (no element for NaN, as in the first 335).     *)

\* rows of one simulate_trades_with_ma
MaxMaRows == 3

\* the limit on open positions
MaxMaPositions == 3
BaseEntryThreshold == 0 - 200
BaseExitThreshold == 200

\* rows (upbit_close, binance_close, ma_14): a premium of -2.2%; a premium of
\* 3% at 2.1 times the price; a premium of 3.1% at a lower price; a premium
\* of -4.4% over the mean by 3%; a premium of 0% under a mean that the entry
\* price was over; a price 6% down
MaRows ==
    {[upbit_close |-> 132030, binance_close |-> 100, ma_14 |-> << >>],
     [upbit_close |-> 292005, binance_close |-> 210, ma_14 |-> << >>],
     [upbit_close |-> 136350, binance_close |-> 98, ma_14 |-> << >>],
     [upbit_close |-> 129000, binance_close |-> 100, ma_14 |-> <<97>>],
     [upbit_close |-> 132300, binance_close |-> 98, ma_14 |-> <<99>>],
     [upbit_close |-> 126900, binance_close |-> 94, ma_14 |-> << >>]}

Clip(x, low, high) == IF x < low THEN low ELSE IF x > high THEN high ELSE x

\* the trend of a row, its strength and the thresholds adjusted to it
MaSignal(row) ==
    IF Len(row.ma_14) = 0
    THEN [trend |-> "unknown", strength |-> 0,
          entry_threshold |-> BaseEntryThreshold,
          exit_threshold |-> BaseExitThreshold]
    ELSE LET ma_value == row.ma_14[1]
             above == row.binance_close - ma_value
             \* |position_pct| / 0.02
             ratio == ((IF above >= 0 THEN above ELSE 0 - above) * 5000) \div ma_value
             trend == IF above * 100 > 2 * ma_value THEN "strong_uptrend"
                      ELSE IF above > 0 THEN "uptrend"
                      ELSE IF above * 100 < (0 - 2) * ma_value THEN "strong_downtrend"
                      ELSE IF above < 0 THEN "downtrend"
                      ELSE "neutral"
             strength == IF trend \in {"strong_uptrend", "strong_downtrend"}
                         THEN Min(ratio, 200)
                         ELSE IF trend = "neutral" THEN 0 ELSE ratio
             entry == IF trend \in {"strong_uptrend", "uptrend"}
                      THEN BaseEntryThreshold - strength \div 2
                      ELSE IF trend \in {"strong_downtrend", "downtrend"}
                      THEN BaseEntryThreshold + strength \div 2
                      ELSE BaseEntryThreshold
             exit == IF trend \in {"strong_uptrend", "uptrend"}
                     THEN BaseExitThreshold - strength \div 4
                     ELSE IF trend \in {"strong_downtrend", "downtrend"}
                     THEN BaseExitThreshold + strength \div 4
                     ELSE BaseExitThreshold
         IN  [trend |-> trend, strength |-> strength,
              entry_threshold |-> Clip(entry, 0 - 500, 0 - 50),
              exit_threshold |-> Clip(exit, 100, 500)]

\* kimchi_premium < threshold and > threshold, threshold in hundredths of a percent
MaPremiumUnder(row, threshold) ==
    (row.upbit_close - BinanceBtcKrw(row)) * 10000 < threshold * BinanceBtcKrw(row)
MaPremiumOver(row, threshold) ==
    (row.upbit_close - BinanceBtcKrw(row)) * 10000 > threshold * BinanceBtcKrw(row)

\* the size of an entry: 80% of max_position_size_btc, all of it in a strong
\* trend, within 95% of what either balance buys
MaPositionSize(cfg, row, signal, krw, usdt) ==
    LET base_size == cfg.max_position_size_btc
        wanted == IF signal.trend \in {"strong_uptrend", "strong_downtrend"}
                  THEN Min((base_size * 15) \div 10, cfg.max_position_size_btc)
                  ELSE (base_size * 8) \div 10
    IN  Min(wanted, Min(FloorMaxBtc(usdt \div 100, row.binance_close),
                        FloorMaxBtc(krw, row.upbit_close)))

\* the position the entry code opens at row, if any
MaEntry(cfg, row, time, signal, b) ==
    LET position_size == MaPositionSize(cfg, row, signal, b.balance_krw,
                                        b.balance_usdt)
        upbit_cost == FloorMulDiv(position_size * row.upbit_close,
                                  10000 + cfg.upbit_commission, 10000)
        binance_proceeds == FloorMulDiv(position_size * row.binance_close * 100,
                                        10000 - cfg.binance_commission, 10000)
    IN  IF /\ MaPremiumUnder(row, signal.entry_threshold)
           /\ Len(b.open_positions) < MaxMaPositions
           /\ position_size >= MinOrderSize
           /\ b.balance_krw >= upbit_cost
           /\ b.balance_usdt >= binance_proceeds
        THEN <<[entry_time |-> time, entry_premium |-> FloorPremium(row),
                size |-> position_size,
                upbit_entry_price |-> row.upbit_close,
                binance_entry_price |-> row.binance_close,
                upbit_cost_krw |-> upbit_cost,
                binance_proceeds_usdt |-> binance_proceeds,
                entry_trend |-> signal.trend,
                entry_threshold |-> signal.entry_threshold]>>
        ELSE << >>

\* the reason for which position pos is flagged at row, if any
MaExitReason(pos, row, signal) ==
    LET should_exit_premium == MaPremiumOver(row, signal.exit_threshold)
        should_exit_ma == /\ Len(row.ma_14) > 0
                          /\ pos.binance_entry_price > row.ma_14[1]
                          /\ row.binance_close < row.ma_14[1]
        should_exit_stop == (row.binance_close - pos.binance_entry_price) * 100
                                < (0 - 5) * pos.binance_entry_price
    IN  IF should_exit_premium THEN <<"premium">>
        ELSE IF should_exit_ma THEN <<"ma_cross">>
        ELSE IF should_exit_stop THEN <<"stop_loss">>
        ELSE << >>

\* positions_to_close: the index and the reason of each position flagged
MaPositionsToClose(positions, row, signal) ==
    LET tagged == [i \in 1..Len(positions) |->
                      [i |-> i, reason |-> MaExitReason(positions[i], row, signal)]]
        flagged == SelectSeq(tagged, LAMBDA e : Len(e.reason) > 0)
    IN  [k \in 1..Len(flagged) |->
            [i |-> flagged[k].i, exit_reason |-> flagged[k].reason[1]]]

\* closing the position at index i of the books b
MaClosePosition(cfg, b, row, time, signal, i, exit_reason) ==
    LET pos == b.open_positions[i]
        upbit_proceeds == FloorMulDiv(pos.size * row.upbit_close,
                                      10000 - cfg.upbit_commission, 10000)
        binance_cost == FloorMulDiv(pos.size * row.binance_close * 100,
                                    10000 + cfg.binance_commission, 10000)
        upbit_pnl_krw == upbit_proceeds - pos.upbit_cost_krw
        binance_pnl_usdt == pos.binance_proceeds_usdt - binance_cost
    IN  Books(b.balance_krw + upbit_proceeds,
              b.balance_usdt - binance_cost,
              b.balance_btc - pos.size,
              RemoveAt(b.open_positions, i),
              Append(b.trades,
                  [time |-> time, type |-> "EXIT", premium |-> FloorPremium(row),
                   size |-> pos.size, upbit_price |-> row.upbit_close,
                   binance_price |-> row.binance_close,
                   upbit_pnl_krw |-> upbit_pnl_krw,
                   binance_pnl_usdt |-> binance_pnl_usdt,
                   total_pnl_krw |-> upbit_pnl_krw
                       + (binance_pnl_usdt * PlaceholderUsdKrw) \div 100,
                   exit_reason |-> exit_reason, trend |-> signal.trend,
                   threshold |-> signal.exit_threshold]))

\* for i, exit_reason in reversed(positions_to_close): the last k flagged
\* pairs are still to close
RECURSIVE MaClosePositions(_, _, _, _, _, _, _)
MaClosePositions(cfg, b, row, time, signal, flagged, k) ==
    IF k = 0 THEN b
    ELSE MaClosePositions(cfg,
             MaClosePosition(cfg, b, row, time, signal, flagged[k].i,
                             flagged[k].exit_reason),
             row, time, signal, flagged, k - 1)

\* balance_krw + balance_usdt * usd_krw_rate + balance_btc * upbit_close
MaTotalValueKrw(krw, usdt, btc, upbit_close) ==
    krw + FloorMulDiv(usdt, PlaceholderUsdKrw, 100) + btc * upbit_close

\* one iteration of the loop over df, at row, from the books b
MaSimulateStep(cfg, row, time, b) ==
    LET signal == MaSignal(row)
        entered == MaEntry(cfg, row, time, signal, b)
        after_entry ==
            IF Len(entered) = 0 THEN b
            ELSE Books(b.balance_krw - entered[1].upbit_cost_krw,
                       b.balance_usdt + entered[1].binance_proceeds_usdt,
                       b.balance_btc + entered[1].size,
                       Append(b.open_positions, entered[1]),
                       Append(b.trades,
                           [time |-> time, type |-> "ENTRY",
                            premium |-> FloorPremium(row),
                            size |-> entered[1].size,
                            upbit_price |-> row.upbit_close,
                            binance_price |-> row.binance_close,
                            trend |-> signal.trend,
                            threshold |-> signal.entry_threshold]))
        flagged == MaPositionsToClose(after_entry.open_positions, row, signal)
    IN  [signal |-> signal, positions_to_close |-> flagged,
         books |-> MaClosePositions(cfg, after_entry, row, time, signal, flagged,
                                    Len(flagged))]

\* simulate_trades_with_ma up to its loop, on a frame of one row or more
MaStart(rows) ==
    /\ ma_pc = "idle"
    /\ Len(rows) > 0
    /\ ma_pc' = "loop"
    /\ ma_df' = rows
    /\ ma_idx' = 0
    /\ ma_balance_krw' = btc_config.initial_balance_krw
    /\ ma_balance_usdt' = btc_config.initial_balance_usdt
    /\ ma_balance_btc' = btc_config.initial_btc
    /\ ma_open_positions' = << >>
    /\ ma_trades' = << >>
    /\ ma_signals' = << >>
    /\ ma_balance_history' = << >>
    /\ UNCHANGED ma_result
    /\ UNCHANGED <<enhanced_vars, caller_vars, run_vars, btc_vars, session_vars,
                   sweep_vars, desktop_vars, strategy_vars, fetch_vars, bot_vars>>

\* one iteration of the loop
MaStep ==
    LET row == ma_df[ma_idx + 1]
        time == ma_idx + 1
        step == MaSimulateStep(btc_config, row, time,
                    Books(ma_balance_krw, ma_balance_usdt, ma_balance_btc,
                          ma_open_positions, ma_trades))
        b == step.books
    IN  /\ ma_pc = "loop"
        /\ ma_idx < Len(ma_df)
        /\ ma_idx' = time
        /\ ma_balance_krw' = b.balance_krw
        /\ ma_balance_usdt' = b.balance_usdt
        /\ ma_balance_btc' = b.balance_btc
        /\ ma_open_positions' = b.open_positions
        /\ ma_trades' = b.trades
        /\ ma_signals' = IF Len(row.ma_14) = 0 THEN ma_signals
                         ELSE Append(ma_signals,
                                     step.signal @@ [time |-> time,
                                                     ma_value |-> row.ma_14[1]])
        /\ ma_balance_history' = Append(ma_balance_history,
               [time |-> time, balance_krw |-> b.balance_krw,
                balance_usdt |-> b.balance_usdt, balance_btc |-> b.balance_btc,
                total_value_krw |-> MaTotalValueKrw(b.balance_krw, b.balance_usdt,
                                                    b.balance_btc, row.upbit_close),
                premium |-> FloorPremium(row), trend |-> step.signal.trend])
        /\ UNCHANGED <<ma_pc, ma_df, ma_result>>
        /\ UNCHANGED <<enhanced_vars, caller_vars, run_vars, btc_vars, session_vars,
                       sweep_vars, desktop_vars, strategy_vars, fetch_vars, bot_vars>>

\* the loop is over: the results are returned
MaFinish ==
    LET final_value_krw == MaTotalValueKrw(ma_balance_krw, ma_balance_usdt,
                               ma_balance_btc, ma_df[Len(ma_df)].upbit_close)
        initial_value_krw == btc_config.initial_balance_krw
            + FloorMulDiv(btc_config.initial_balance_usdt, PlaceholderUsdKrw, 100)
    IN  /\ ma_pc = "loop"
        /\ ma_idx = Len(ma_df)
        /\ ma_pc' = "done"
        /\ ma_result' =
              <<[final_balance_krw |-> ma_balance_krw,
                 final_balance_usdt |-> ma_balance_usdt,
                 final_balance_btc |-> ma_balance_btc,
                 final_value_krw |-> final_value_krw,
                 initial_value_krw |-> initial_value_krw,
                 total_return_krw |-> final_value_krw - initial_value_krw,
                 \* in whole percent, rounded down
                 return_percentage |->
                     FloorMulDiv(final_value_krw - initial_value_krw, 100,
                                 initial_value_krw),
                 total_trades |-> Cardinality({k \in 1..Len(ma_trades) :
                                                  ma_trades[k].type = "ENTRY"}),
                 open_positions |-> Len(ma_open_positions)]>>
        /\ UNCHANGED <<ma_df, ma_idx, ma_balance_krw, ma_balance_usdt,
                       ma_balance_btc, ma_open_positions, ma_trades, ma_signals,
                       ma_balance_history>>
        /\ UNCHANGED <<enhanced_vars, caller_vars, run_vars, btc_vars, session_vars,
                       sweep_vars, desktop_vars, strategy_vars, fetch_vars, bot_vars>>

InitMa ==
    /\ ma_pc = "idle"
    /\ ma_df = << >>
    /\ ma_idx = 0
    /\ ma_balance_krw = 0
    /\ ma_balance_usdt = 0
    /\ ma_balance_btc = 0
    /\ ma_open_positions = << >>
    /\ ma_trades = << >>
    /\ ma_signals = << >>
    /\ ma_balance_history = << >>
    /\ ma_result = << >>

-----------------------------------------------------------------------------
(* UpbitTradingBot (src/upbit_bot/trading_bot.py), in virtual mode            *)
(*                                                                            *)
(* Units: an amount or a USDT balance is a whole number of USDT, a KRW        *)
(* balance a whole number of KRW, a time a whole number of seconds.           *)

\* calls of execute_trade
MaxBotCalls == 2
\* iterations of run_bot's loop
MaxIterations == 2

\* can_trade's rough KRW per USD
RoughConversion == 1300
\* run_bot's check_interval, as the desktop application passes it
CheckInterval == 60
\* the first instant of the model: the bot is constructed at midnight of day 1
Clock0 == SecondsPerDay

\* percentages in tenths of a percent, max_position_size in tenths
DefaultTradingConfig ==
    [max_trade_amount |-> 1000, max_daily_loss |-> 500, max_position_size |-> 3,
     price_threshold |-> 5, max_trades_per_day |-> 10, cooldown_period |-> 300,
     emergency_stop_loss |-> 50]
\* the default configuration, and one with a single trade a day
TradingConfigs ==
    {DefaultTradingConfig, [DefaultTradingConfig EXCEPT !.max_trades_per_day = 1]}

initial_balance_usd == 10000

\* what the exchanges answer: the USD/KRW rate, and USDT/KRW prices at
\* premiums of -1%, 0% and 3%
BotRate == 1300
BotPrices == {1287, 1300, 1339}
\* the amounts execute_trade is called with
BotAmounts == {1000, 2000, 4000}

\* the bot's and its risk manager's fields
TraderState ==
    [daily_trades |-> daily_trades, daily_loss |-> daily_loss,
     last_trade_time |-> last_trade_time, daily_reset_time |-> daily_reset_time,
     virtual_balance_usd |-> virtual_balance_usd,
     virtual_balance_krw |-> virtual_balance_krw,
     trade_history |-> trade_history, performance_metrics |-> performance_metrics]

\* reset_daily_counters at time t
reset_daily_counters(st, t) ==
    IF t >= st.daily_reset_time + SecondsPerDay
    THEN [st EXCEPT !.daily_trades = 0, !.daily_loss = 0,
                    !.daily_reset_time = DayOf(t) * SecondsPerDay]
    ELSE st

\* get_current_balance, in virtual mode
get_current_balance(st) ==
    [USD |-> st.virtual_balance_usd, KRW |-> st.virtual_balance_krw]

\* a faulty variant: the cooldown is checked before the daily limit
can_trade_cooldown_first(cfg, st, action, amount, current_balance, t) ==
    LET st1 == reset_daily_counters(st, t)
        reason ==
            IF t - st1.last_trade_time < cfg.cooldown_period
            THEN "Cooldown period active"
            ELSE IF st1.daily_trades >= cfg.max_trades_per_day
            THEN "Daily trade limit exceeded"
            ELSE IF st1.daily_loss >= cfg.max_daily_loss
            THEN "Daily loss limit exceeded"
            ELSE IF amount * 10 * RoughConversion
                      > (current_balance.USD * RoughConversion + current_balance.KRW)
                            * cfg.max_position_size
            THEN "Position size too large"
            ELSE IF action = "BUY" /\ current_balance.USD < amount
            THEN "Insufficient USD balance"
            ELSE IF action = "SELL" /\ current_balance.KRW < amount * RoughConversion
            THEN "Insufficient KRW balance"
            ELSE "Trade allowed"
    IN  [state |-> st1, allowed |-> reason = "Trade allowed", reason |-> reason]

\* RiskManager.can_trade at time t: the fields after it and its answer
can_trade(cfg, st, action, amount, current_balance, t) ==
    LET st1 == reset_daily_counters(st, t)
        reason ==
            IF st1.daily_trades >= cfg.max_trades_per_day
            THEN "Daily trade limit exceeded"
            ELSE IF st1.daily_loss >= cfg.max_daily_loss
            THEN "Daily loss limit exceeded"
            ELSE IF t - st1.last_trade_time < cfg.cooldown_period
            THEN "Cooldown period active"
            \* amount > (USD + KRW / 1300) * max_position_size
            ELSE IF amount * 10 * RoughConversion
                      > (current_balance.USD * RoughConversion + current_balance.KRW)
                            * cfg.max_position_size
            THEN "Position size too large"
            ELSE IF action = "BUY" /\ current_balance.USD < amount
            THEN "Insufficient USD balance"
            ELSE IF action = "SELL" /\ current_balance.KRW < amount * RoughConversion
            THEN "Insufficient KRW balance"
            ELSE "Trade allowed"
    IN  [state |-> st1, allowed |-> reason = "Trade allowed", reason |-> reason]

\* _execute_virtual_trade
execute_virtual_trade(st, action, amount, price) ==
    LET krw_amount == amount * price
    IN  IF action = "BUY" /\ st.virtual_balance_usd >= amount
        THEN [state |-> [st EXCEPT !.virtual_balance_usd = @ - amount,
                                   !.virtual_balance_krw = @ + krw_amount],
              result |-> [success |-> TRUE, reason |-> ""]]
        ELSE IF action = "SELL" /\ st.virtual_balance_krw >= krw_amount
        THEN [state |-> [st EXCEPT !.virtual_balance_krw = @ - krw_amount,
                                   !.virtual_balance_usd = @ + amount],
              result |-> [success |-> TRUE, reason |-> ""]]
        ELSE [state |-> st,
              result |-> [success |-> FALSE, reason |-> "Insufficient balance"]]

\* the TradeRecord execute_trade builds
BotTradeRecord(action, amount, price, usd_krw_rate, t, traded) ==
    [timestamp |-> t, action |-> action, amount_usd |-> amount,
     usdt_krw_price |-> price, usd_krw_rate |-> usd_krw_rate,
     difference_percentage |-> FloorDiffPercentage(price, usd_krw_rate),
     success |-> traded.result.success, reason |-> traded.result.reason,
     profit_loss |-> 0, balance_after |-> get_current_balance(traded.state)]

\* RiskManager.record_trade at time t; profit_loss is 0 in every record
record_trade(st, trade_result, t) ==
    [st EXCEPT !.daily_trades = @ + 1,
               !.last_trade_time = t,
               !.daily_loss = IF trade_result.profit_loss < 0
                              THEN @ - trade_result.profit_loss ELSE @]

\* _update_performance_metrics, win_rate in whole percents (rounded down)
update_performance_metrics(metrics, trade) ==
    LET total == metrics.total_trades + 1
        successful == metrics.successful_trades + (IF trade.success THEN 1 ELSE 0)
    IN  [total_trades |-> total, successful_trades |-> successful,
         total_profit_loss |-> metrics.total_profit_loss + trade.profit_loss,
         win_rate |-> (successful * 100) \div total]

\* execute_trade at time t, the exchanges answering price and usd_krw_rate:
\* the fields after it, what can_trade answered and what it returns
execute_trade(cfg, st, action, amount, price, usd_krw_rate, t) ==
    LET checked == can_trade(cfg, st, action, amount, get_current_balance(st), t)
    IN  IF ~checked.allowed
        THEN [state |-> checked.state, checked |-> checked,
              result |-> [success |-> FALSE, reason |-> checked.reason]]
        ELSE LET limited == Min(amount, cfg.max_trade_amount)
                 traded == execute_virtual_trade(checked.state, action, limited, price)
                 trade_record == BotTradeRecord(action, limited, price,
                                                usd_krw_rate, t, traded)
                 recorded == record_trade(traded.state, trade_record, t)
             IN  [state |-> [recorded EXCEPT
                                !.trade_history = Append(@, trade_record),
                                !.performance_metrics =
                                    update_performance_metrics(@, trade_record)],
                  checked |-> checked, result |-> traded.result]

\* what a call of execute_trade did, for the properties: its arguments, the
\* time, can_trade's answer, what it returned and the fields before and after
TradeCall(action, amount, price, t, r) ==
    [action |-> action, amount |-> amount, price |-> price, time |-> t,
     allowed |-> r.checked.allowed, reason |-> r.checked.reason,
     result |-> r.result,
     before |-> [TraderState EXCEPT !.trade_history = Len(@)],
     after |-> [r.state EXCEPT !.trade_history = Len(@)]]

\* the bot's fields become those of st
TraderBecomes(st) ==
    /\ daily_trades' = st.daily_trades
    /\ daily_loss' = st.daily_loss
    /\ last_trade_time' = st.last_trade_time
    /\ daily_reset_time' = st.daily_reset_time
    /\ virtual_balance_usd' = st.virtual_balance_usd
    /\ virtual_balance_krw' = st.virtual_balance_krw
    /\ trade_history' = st.trade_history
    /\ performance_metrics' = st.performance_metrics
    /\ UNCHANGED trading_config

\* one call execute_trade(action, amount), gap seconds after the latest call
ExecuteTrade(action, amount, price, gap) ==
    LET t == clock + gap
        r == execute_trade(trading_config, TraderState, action, amount, price,
                           BotRate, t)
    IN  /\ Len(trade_calls) < MaxBotCalls
        /\ clock' = t
        /\ TraderBecomes(r.state)
        /\ trade_calls' = Append(trade_calls, TradeCall(action, amount, price, t, r))
        /\ UNCHANGED <<last_market_data, bot_is_running, bot_pc, stop_requested,
                       iterations>>
        /\ UNCHANGED <<enhanced_vars, caller_vars, run_vars, btc_vars, session_vars,
                       sweep_vars, desktop_vars, strategy_vars, fetch_vars, ma_vars>>

\* calculate_arbitrage_opportunity, the exchanges answering price and
\* usd_krw_rate: BUY under -price_threshold, SELL over price_threshold
calculate_arbitrage_opportunity(cfg, price, usd_krw_rate) ==
    LET buy == 1000 * price < (1000 - cfg.price_threshold) * usd_krw_rate
        sell == 1000 * price > (1000 + cfg.price_threshold) * usd_krw_rate
    IN  [usd_krw_rate |-> usd_krw_rate, usdt_krw_price |-> price,
         action |-> IF buy THEN "BUY" ELSE IF sell THEN "SELL" ELSE "HOLD",
         profitable |-> buy \/ sell]

\* get_performance_summary()['return_percentage'] < -emergency_stop_loss, with
\* the total value USD + KRW / 1300 (both sides multiplied by 1300 * 1000)
EmergencyStop(cfg, st) ==
    (st.virtual_balance_usd * RoughConversion + st.virtual_balance_krw
        - initial_balance_usd * RoughConversion) * 1000
      < (0 - cfg.emergency_stop_loss) * initial_balance_usd * RoughConversion

\* the threads of the desktop application leave the components other than
\* the bot alone
BotFrame ==
    /\ UNCHANGED <<worker_pc, worker_data, worker_current, worker_results, worker_best>>
    /\ UNCHANGED <<enhanced_vars, caller_vars, run_vars, btc_vars, session_vars,
                   sweep_vars, strategy_vars, fetch_vars, ma_vars>>

\* start_trading: the trading thread is started on the bot, then the
\* application's flag is set and the stop button enabled
StartTrading ==
    /\ ~is_running
    /\ bot_pc = "idle"
    /\ bot_pc' = "started"
    /\ is_running' = TRUE
    /\ UNCHANGED <<trader_vars, clock, last_market_data, trade_calls,
                   bot_is_running, stop_requested, iterations>>
    /\ BotFrame

\* stop_trading: stop_bot() on the bot, then the application's flag is
\* cleared and the stop button disabled
StopTrading ==
    /\ is_running
    /\ bot_pc # "idle"
    /\ bot_is_running' = FALSE
    /\ stop_requested' = TRUE
    /\ is_running' = FALSE
    /\ UNCHANGED <<trader_vars, clock, last_market_data, trade_calls, bot_pc,
                   iterations>>
    /\ BotFrame

\* run_bot, in the trading thread: self.is_running = True
RunBotStart ==
    /\ bot_pc = "started"
    /\ bot_is_running' = TRUE
    /\ bot_pc' = "test"
    /\ UNCHANGED <<trader_vars, clock, last_market_data, trade_calls,
                   stop_requested, iterations, is_running>>
    /\ BotFrame

\* while self.is_running: into the body, or out of the loop and through the
\* finally clause
RunBotTest ==
    /\ bot_pc = "test"
    /\ bot_pc' = IF bot_is_running THEN "body" ELSE "stopped"
    /\ bot_is_running' = bot_is_running
    /\ UNCHANGED <<trader_vars, clock, last_market_data, trade_calls,
                   stop_requested, iterations, is_running>>
    /\ BotFrame

\* the body of the loop up to the sleep: the emergency stop, or the
\* opportunity and, if it is profitable, execute_trade with max_trade_amount
\* (the exchange is asked for the price once more by execute_trade)
RunBotIteration(price, trade_price) ==
    LET opportunity == calculate_arbitrage_opportunity(trading_config, price, BotRate)
        r == execute_trade(trading_config, TraderState, opportunity.action,
                           trading_config.max_trade_amount, trade_price, BotRate,
                           clock)
    IN  /\ bot_pc = "body"
        /\ iterations < MaxIterations
        /\ iterations' = iterations + 1
        /\ IF EmergencyStop(trading_config, TraderState)
           THEN /\ bot_is_running' = FALSE
                /\ bot_pc' = "stopped"
                /\ UNCHANGED <<trader_vars, last_market_data, trade_calls>>
           ELSE /\ bot_pc' = "sleep"
                /\ last_market_data' =
                      <<[usd_krw_rate |-> BotRate, usdt_krw_price |-> price]>>
                /\ IF opportunity.profitable
                   THEN /\ TraderBecomes(r.state)
                        /\ trade_calls' = Append(trade_calls,
                               TradeCall(opportunity.action,
                                         trading_config.max_trade_amount,
                                         trade_price, clock, r))
                   ELSE UNCHANGED <<trader_vars, trade_calls>>
                /\ UNCHANGED bot_is_running
        /\ UNCHANGED <<clock, stop_requested, is_running>>
        /\ BotFrame

\* time.sleep(check_interval)
RunBotSleep ==
    /\ bot_pc = "sleep"
    /\ clock' = clock + CheckInterval
    /\ bot_pc' = "test"
    /\ UNCHANGED <<trader_vars, last_market_data, trade_calls, bot_is_running,
                   stop_requested, iterations, is_running>>
    /\ BotFrame

\* a constructed UpbitTradingBot with configuration cfg
InitBot(cfg) ==
    /\ trading_config = cfg
    /\ clock = Clock0
    /\ daily_trades = 0
    /\ daily_loss = 0
    /\ last_trade_time = 0
    /\ daily_reset_time = DayOf(Clock0) * SecondsPerDay
    /\ virtual_balance_usd = initial_balance_usd
    /\ virtual_balance_krw = 0
    /\ trade_history = << >>
    /\ performance_metrics = [total_trades |-> 0, successful_trades |-> 0,
                              total_profit_loss |-> 0, win_rate |-> 0]
    /\ last_market_data = << >>
    /\ trade_calls = << >>
    /\ bot_is_running = FALSE
    /\ bot_pc = "idle"
    /\ stop_requested = FALSE
    /\ iterations = 0

-----------------------------------------------------------------------------
(* Bounds of the model *)

InitComponents ==
    /\ InitSession
    /\ InitSweep
    /\ InitDesktop
    /\ InitStrategy
    /\ InitFetch
    /\ InitMa

InitOthers ==
    /\ InitComponents
    /\ InitBot(DefaultTradingConfig)

-----------------------------------------------------------------------------
(* The specifications *)

\* an EnhancedUpbitBacktest of any configuration
Init ==
    /\ \E cfg \in Configs : InitEnhanced(cfg)
    /\ InitBitcoin(DefaultBtcConfig)
    /\ InitOthers

Next ==
    \/ \E action \in {"BUY", "SELL"}, amount \in CallAmounts, price \in CallPrices,
          usd_krw_rate \in Rates, gap \in CallGaps :
            CallExecute(action, amount, price, usd_krw_rate, gap)
    \/ RunBacktest
    \/ RunStep
    \/ RunFinish

Spec == Init /\ [][Next]_vars

\* run_backtest is one sequential call: once in its loop it goes on to the
\* next row, and past the last row it returns
\* a run on a fresh object over any series of the rows of FairRows
RunBacktestFair ==
    /\ pc = "idle"
    /\ calls = << >>
    /\ \E end_date \in 0..MaxRows :
        \E rows \in [1..Len(DateRange(StartDate, end_date)) -> FairRows] :
            RunStart(FALSE, "none", end_date, rows)
    /\ UNCHANGED session_vars

NextFair ==
    \/ RunBacktestFair
    \/ RunStep
    \/ RunFinish

\* an object with the default limits, with an initial KRW balance, or with a
\* zero trade amount
FairConfigs == {cfg \in Configs : /\ cfg.max_trades_per_day = 2
                                  /\ cfg.slippage_rate = 0
                                  /\ cfg.buy_threshold = 0
                                  /\ cfg.max_trade_amount # 120}
InitFair ==
    /\ \E cfg \in FairConfigs : InitEnhanced(cfg)
    /\ InitBitcoin(DefaultBtcConfig)
    /\ InitOthers

SpecFair == InitFair /\ [][NextFair]_vars /\ WF_vars(RunStep) /\ WF_vars(RunFinish)

\* the metrics of any trade history and any equity curve: profit_loss is
\* a field of TradeRecord that a caller of the metrics may have filled
MaxTrades == 3
MaxCurve == 3
ProfitLosses == {0 - 2 * Scale, 0, 1 * Scale, 3 * Scale}
EquityValues == {980 * Scale, 1000 * Scale, 1020 * Scale}
TradeHistories ==
    LET trade(pl) == [TradeRecord("SELL", MinTradeSize, ApproxRate, ApproxRate,
                                  0, 0, 0) EXCEPT !.profit_loss = pl]
    IN  UNION {[1..n -> {trade(pl) : pl \in ProfitLosses}] : n \in 0..MaxTrades}
EquityCurves == UNION {[1..n -> EquityValues] : n \in 0..MaxCurve}

InitMetrics ==
    /\ \E trade_list \in TradeHistories, curve \in EquityCurves :
          InitHolding(DefaultConfig, trade_list, curve)
    /\ InitBitcoin(DefaultBtcConfig)
    /\ InitOthers

CalculatePerformanceMetrics ==
    /\ result' = calculate_performance_metrics(config, balance_usd, balance_krw,
                                                trades, equity_curve)
    /\ UNCHANGED <<enhanced_vars, caller_vars, pc, run_args, historical_data,
                   data_source, row_index, previous_balance, step_log, btc_vars,
                   session_vars, other_vars>>

CalculateMaxDrawdown ==
    /\ result' = [call |-> "calculate_max_drawdown",
                  value |-> calculate_max_drawdown(equity_curve)]
    /\ UNCHANGED <<enhanced_vars, caller_vars, pc, run_args, historical_data,
                   data_source, row_index, previous_balance, step_log, btc_vars,
                   session_vars, other_vars>>

NextMetrics ==
    \/ CalculatePerformanceMetrics
    \/ CalculateMaxDrawdown

SpecMetrics == InitMetrics /\ [][NextMetrics]_vars

\* a BitcoinBacktester of any configuration
InitBtc ==
    /\ InitEnhanced(DefaultConfig)
    /\ \E cfg \in BtcConfigs : InitBitcoin(cfg)
    /\ InitOthers

NextBtc ==
    \/ BtcRunBacktest
    \/ BtcStep
    \/ BtcFinish

SpecBitcoin == InitBtc /\ [][NextBtc]_vars

-----------------------------------------------------------------------------
(* Properties of EnhancedUpbitBacktest, checked under Spec *)

\* every call of execute_backtest_trade so far, by the caller or by the run
ExecutorCalls ==
    {calls[k] : k \in 1..Len(calls)}
        \cup {step_log[k].call : k \in {i \in 1..Len(step_log) : step_log[i].attempted}}

DaysOfTrades == {DayOf(trades[i].timestamp) : i \in 1..Len(trades)}
TradesOnDay(d) == Cardinality({i \in 1..Len(trades) : DayOf(trades[i].timestamp) = d})
\* the trades executed on call k's day by the calls before it
ExecutedEarlierThatDay(k) ==
    Cardinality({j \in 1..(k - 1) : /\ calls[j].result.success
                                    /\ DayOf(calls[j].date) = DayOf(calls[k].date)})

\* C1: with dates that never go back, no calendar day holds more executed
\* trades than max_trades_per_day, and a call made when its day already holds
\* that many is rejected with 'Daily trade limit exceeded'.
C1_DailyTradeLimit ==
    /\ \A d \in DaysOfTrades : TradesOnDay(d) <= config.max_trades_per_day
    /\ \A k \in 1..Len(calls) :
          ExecutedEarlierThatDay(k) >= config.max_trades_per_day
              => calls[k].result = Rejected("Daily trade limit exceeded")

\* a day with two trades executed and a third attempt rejected for the limit
C1_Witness ==
    \E k \in 1..Len(calls) :
        /\ calls[k].result.reason = "Daily trade limit exceeded"
        /\ config.max_trades_per_day = 2
        /\ TradesOnDay(DayOf(calls[k].date)) = 2

\* the costs the claim names: amount * commission_rate + amount * price * slippage_rate
ClaimedCosts(c) ==
    c.amount * config.commission_rate + c.amount * c.price * config.slippage_rate

\* C2: an executed trade lowers balance_usd + balance_krw / price by exactly
\* the costs (the equation is multiplied by price * Scale to stay in integers).
C2_BalanceConservation ==
    \A c \in ExecutorCalls :
        c.result.success =>
            (c.before.USD - c.after.USD) * c.price
                + (c.before.KRW - c.after.KRW) * Scale = ClaimedCosts(c) * c.price

\* a BUY and a SELL executed with commission and slippage both charged
C2_Witness ==
    /\ config.slippage_rate > 0
    /\ config.commission_rate > 0
    /\ \E b, c \in ExecutorCalls :
        /\ b.result.success /\ b.action = "BUY"
        /\ c.result.success /\ c.action = "SELL"

PremiumBelow(row, threshold) ==
    1000 * row.usdt_krw_price < (1000 + threshold) * row.usd_krw_rate
PremiumAbove(row, threshold) ==
    1000 * row.usdt_krw_price > (1000 + threshold) * row.usd_krw_rate
PremiumIs(row, threshold) ==
    1000 * row.usdt_krw_price = (1000 + threshold) * row.usd_krw_rate

\* C4: the signal of every row is BUY if its premium is under buy_threshold,
\* else SELL if it is over sell_threshold, else HOLD; it depends on the row and
\* the two thresholds alone.
C4_SignalPolicy ==
    \A k \in 1..Len(step_log) :
        LET s == step_log[k]
        IN  s.signal = IF PremiumBelow(s.row, config.buy_threshold) THEN "BUY"
                       ELSE IF PremiumAbove(s.row, config.sell_threshold) THEN "SELL"
                       ELSE "HOLD"

\* a run with a premium equal to the buy threshold and one equal to the sell
\* threshold, both answered HOLD
C4_Witness ==
    \E i, j \in 1..Len(step_log) :
        /\ PremiumIs(step_log[i].row, config.buy_threshold)
        /\ step_log[i].signal = "HOLD"
        /\ PremiumIs(step_log[j].row, config.sell_threshold)
        /\ step_log[j].signal = "HOLD"

StrictlyBetweenThresholds(row) ==
    /\ PremiumAbove(row, config.buy_threshold)
    /\ PremiumBelow(row, config.sell_threshold)

\* C5: a finished run all of whose rows have a premium strictly between the
\* thresholds has executed no trade and holds the balances it started with.
C5_NoTradeBetweenThresholds ==
    (/\ pc = "done"
     /\ \A k \in 1..Len(historical_data) : StrictlyBetweenThresholds(historical_data[k]))
        => /\ trades = << >>
           /\ balance_usd = reset_state(config).balance_usd
           /\ balance_krw = reset_state(config).balance_krw

\* a finished run of two rows or more, all strictly between the thresholds
C5_Witness ==
    /\ pc = "done"
    /\ Len(historical_data) >= 2
    /\ \A k \in 1..Len(historical_data) : StrictlyBetweenThresholds(historical_data[k])

\* C6: a call of execute_backtest_trade either executes, changing both
\* balances and appending one TradeRecord, or returns a rejection with a
\* reason and leaves the balances and the trade list as they were; a run
\* processes the rows after a rejection too.
C6_AtomicTrade ==
    /\ \A c \in ExecutorCalls :
          IF c.result.success
          THEN /\ c.after.trades = c.before.trades + 1
               /\ c.after.USD # c.before.USD
               /\ c.after.KRW # c.before.KRW
          ELSE /\ c.after = c.before
               /\ c.result.reason # ""
    /\ pc # "idle" => Len(step_log) = row_index
    /\ pc = "done" => row_index = Len(historical_data)

\* a finished run in which a trade was rejected and a later row traded
C6_Witness ==
    /\ pc = "done"
    /\ \E i, j \in 1..Len(step_log) :
        /\ i < j
        /\ step_log[i].attempted /\ ~step_log[i].call.result.success
        /\ step_log[j].attempted /\ step_log[j].call.result.success

\* C7 (as claimed): any two executed trades are at least the cooldown apart.
C7_CooldownBetweenTrades ==
    \A i, j \in 1..Len(trades) :
        i < j => trades[j].timestamp - trades[i].timestamp >= cooldown_period

\* the configuration and the dates the claim calls valid
ValidRun ==
    /\ config.initial_balance_usd > 0
    /\ config.max_trade_amount > 0
    /\ config.buy_threshold < config.sell_threshold
    /\ run_args.start_date < run_args.end_date

\* C10 (as claimed): no row is processed and no result is returned for a
\* configuration that is not valid.
C10_ConfigValidated ==
    (row_index > 0 \/ pc = "done") => ValidRun

\* C11 (as claimed): the return_percentage of a finished run without trades is
\* the one derived from the equity curve, (last value - initial) / initial *
\* 100, and its trade counts are 0.
C11_ReturnFromEquityCurve ==
    (pc = "done" /\ Len(trades) = 0 /\ Len(equity_curve) > 0) =>
        /\ result.return_percentage =
              FloorPercent(equity_curve[Len(equity_curve)] - result.initial_balance,
                           result.initial_balance)
        /\ result.total_trades = 0
        /\ result.winning_trades = 0
        /\ result.losing_trades = 0

\* C12 (as claimed): the max_drawdown of a finished run is the greatest
\* drawdown of its equity curve from the running peak.
C12_DrawdownFromEquityCurve ==
    pc = "done" => result.max_drawdown = calculate_max_drawdown(equity_curve)

\* C15 (as claimed): the profit_factor of a finished run is infinite exactly
\* when the run has a winning trade and no losing trade.
C15_ProfitFactorInfinite ==
    pc = "done" =>
        (result.profit_factor.inf
            <=> (result.winning_trades > 0 /\ result.losing_trades = 0))

\* C16 (as claimed): a SELL that follows a BUY made at another price carries
\* the profit or loss it realizes.
C16_ProfitLossComputed ==
    \A i, j \in 1..Len(trades) :
        (/\ i < j
         /\ trades[i].action = "BUY"
         /\ trades[j].action = "SELL"
         /\ trades[i].usdt_krw_price # trades[j].usdt_krw_price)
        => trades[j].profit_loss # 0

-----------------------------------------------------------------------------
(* Properties of the metrics, checked under SpecMetrics *)

NonDecreasing(curve) == \A i \in 1..(Len(curve) - 1) : curve[i] <= curve[i + 1]

\* C13: calculate_max_drawdown returns a value >= 0 for every equity curve of
\* positive values, and 0 for a non-decreasing curve and for the empty curve.
C13_DrawdownNonNegative ==
    result.call = "calculate_max_drawdown" =>
        /\ result.value >= 0
        /\ NonDecreasing(equity_curve) => result.value = 0

\* the drawdown of a curve that rises
C13_Witness ==
    /\ result.call = "calculate_max_drawdown"
    /\ NonDecreasing(equity_curve)
    /\ Len(equity_curve) >= 2
    /\ equity_curve[1] < equity_curve[Len(equity_curve)]

\* C14: winning_trades counts the trades with profit_loss > 0, losing_trades
\* those with profit_loss < 0, so that together they are at most
\* total_trades, and win_rate is winning_trades / total_trades * 100, 0
\* without trades.
C14_TradeCounts ==
    result.call = "calculate_performance_metrics" =>
        LET won == {i \in 1..Len(trades) : trades[i].profit_loss > 0}
            lost == {i \in 1..Len(trades) : trades[i].profit_loss < 0}
        IN  /\ result.total_trades = Len(trades)
            /\ result.winning_trades = Cardinality(won)
            /\ result.losing_trades = Cardinality(lost)
            /\ result.winning_trades + result.losing_trades <= result.total_trades
            /\ result.win_rate = IF Len(trades) = 0 THEN 0
                                 ELSE FloorPercent(Cardinality(won), Len(trades))

\* the metrics of a history with a winning, a losing and a zero-profit trade
C14_Witness ==
    /\ result.call = "calculate_performance_metrics"
    /\ \E i, j, k \in 1..Len(trades) :
        /\ trades[i].profit_loss > 0
        /\ trades[j].profit_loss < 0
        /\ trades[k].profit_loss = 0
    /\ result.winning_trades + result.losing_trades < result.total_trades

-----------------------------------------------------------------------------
(* Properties of BitcoinBacktester, checked under SpecBitcoin *)

EntryTrades == {k \in 1..Len(btc_trades) : btc_trades[k].type = "ENTRY"}
LevelsOf(seq) == {seq[i] : i \in 1..Len(seq)}

\* C3: in the scaled strategy no two entries of a run are at the same entry
\* level, whether or not the position of the earlier one is still open, and
\* there are never more open positions than entry levels (every open position
\* holds a used level of its own, and only listed levels are used).
C3_EntryLevelsUsedOnce ==
    btc_config.use_scaled_strategy =>
        /\ \A j, k \in EntryTrades :
              j # k => btc_trades[j].entry_level # btc_trades[k].entry_level
        /\ \A i, j \in 1..Len(open_positions) :
              i # j => open_positions[i].entry_level # open_positions[j].entry_level
        /\ \A i \in 1..Len(open_positions) :
              open_positions[i].entry_level \in used_entry_levels
        /\ used_entry_levels = {btc_trades[k].entry_level : k \in EntryTrades}
        /\ used_entry_levels \subseteq LevelsOf(ScaledEntryLevels)
        /\ Len(open_positions) <= Len(ScaledEntryLevels)

\* the step just made an entry although the premium was also under a level
\* whose position had been closed before
C3_Witness ==
    /\ btc_config.use_scaled_strategy
    /\ Len(btc_trades) > 0
    /\ btc_trades[Len(btc_trades)].type = "ENTRY"
    /\ btc_trades[Len(btc_trades)].time = idx
    /\ \E level \in used_entry_levels :
        /\ \A i \in 1..Len(open_positions) : open_positions[i].entry_level # level
        /\ PremiumUnder(df[idx], level)

\* C8 (as claimed): after a step no position is left open that meets the
\* stop-loss/take-profit band of should_exit_position on its own entry price.
C8_BandExitsEveryStep ==
    \A i \in 1..Len(open_positions) :
        ~should_exit_position(DefaultConfig, open_positions[i].upbit_entry_price,
                              df[idx].upbit_close, "LONG")

\* C9 (as claimed): a fetch that raises or returns nothing does not end the
\* run with an error.
C9_FetchFailureFallsBack ==
    btc_fetch \in {"empty", "raises"} => btc_pc # "error"


ExitTrades == {k \in 1..Len(btc_trades) : btc_trades[k].type = "EXIT"}
OpenSizes == SeqSum([i \in 1..Len(open_positions) |-> open_positions[i].size])
OpenMargins ==
    SeqSum([i \in 1..Len(open_positions) |-> open_positions[i].binance_margin_usdt])

\* C17: the number of open positions is the number of ENTRY records minus the
\* number of EXIT records after every step, the BTC of the open positions is
\* in balance_btc, and the end of the series closes nothing: the returned
\* trades are those of the loop, the returned open_positions is that
\* difference and the returned final_balance_btc still holds their BTC.
C17_NoForcedClose ==
    /\ Len(open_positions) = Cardinality(EntryTrades) - Cardinality(ExitTrades)
    /\ btc_pc \in {"loop", "done"} =>
        btc_balance_btc = btc_config.initial_btc + OpenSizes
    /\ btc_pc = "done" =>
        /\ btc_result.trades = btc_trades
        /\ btc_result.open_positions
              = Cardinality(EntryTrades) - Cardinality(ExitTrades)
        /\ btc_result.total_trades = Cardinality(EntryTrades)
        /\ btc_result.final_balance_btc = btc_config.initial_btc + OpenSizes

\* a finished run that closed a position and left another one open
C17_Witness ==
    /\ btc_pc = "done"
    /\ ExitTrades # {}
    /\ btc_result.open_positions > 0

\* C18 (as claimed): the EXIT records of a step are those of the positions
\* flagged for exit, in the order in which the positions were opened.
C18_ClosedInInsertionOrder ==
    [][(btc_pc = "loop" /\ idx' = idx + 1) =>
        LET row == df[idx + 1]
            step == SimulateStep(btc_config, row, idx + 1,
                        Books(btc_balance_krw, btc_balance_usdt, btc_balance_btc,
                              open_positions, btc_trades),
                        used_entry_levels, used_exit_levels)
            flagged == step.positions_to_close
            exits == SubSeq(btc_trades', Len(btc_trades') - Len(flagged) + 1,
                            Len(btc_trades'))
        IN  exits = [k \in 1..Len(flagged) |->
                        ExitTrade(btc_config,
                                  step.after_entry.open_positions[flagged[k].i],
                                  row, idx + 1, flagged[k].exit_level)]]_vars

\* C19 (as claimed): the funding income of every closed position has been
\* credited to the USDT balance, next to the released margin.
C19_FundingCredited ==
    btc_pc \in {"loop", "done"} =>
        btc_balance_usdt + OpenMargins
            = btc_config.initial_balance_usdt
              + SeqSum([k \in 1..Len(btc_trades) |->
                          IF btc_trades[k].type = "EXIT"
                          THEN btc_trades[k].funding_income_usdt ELSE 0])

\* C20: the margin of every open position is size * Binance entry price /
\* leverage, the USDT balance is the initial balance less the margins of the
\* open positions and is never negative, so that closing a position returns
\* what opening it took and nothing is withheld once all are closed.
C20_MarginReleased ==
    btc_pc \in {"loop", "done"} =>
        /\ \A i \in 1..Len(open_positions) :
              open_positions[i].binance_margin_usdt
                = (open_positions[i].size * open_positions[i].binance_entry_price * 100)
                  \div open_positions[i].leverage
        /\ btc_balance_usdt = btc_config.initial_balance_usdt - OpenMargins
        /\ btc_balance_usdt >= 0
        /\ Len(open_positions) = 0 => btc_balance_usdt = btc_config.initial_balance_usdt

\* every position that was opened has been closed
C20_Witness ==
    /\ ExitTrades # {}
    /\ Len(open_positions) = 0
    /\ btc_balance_usdt = btc_config.initial_balance_usdt

-----------------------------------------------------------------------------
(* The loop of run_backtest, checked under SpecFair *)

\* the rows the loop has gone through, in the order it went through them
ProcessedRows == [i \in 1..Len(step_log) |-> step_log[i].row]

\* C28: a run processes each row of its series once, in series order, adds
\* one point to equity_curve and to daily_returns per row whatever the row
\* led to, and ends; at its end both hold as many points as the series has rows.
C28_OnePointPerObservation ==
    /\ [](pc \in {"loop", "done"} =>
            /\ row_index <= Len(historical_data)
            /\ ProcessedRows = SubSeq(historical_data, 1, row_index)
            /\ Len(equity_curve) = row_index
            /\ Len(daily_returns) = row_index
            /\ (pc = "done" => row_index = Len(historical_data)))
    /\ (pc = "loop" ~> pc = "done")

\* a finished run with a row that traded, a row whose trade was rejected and
\* a row without a signal
C28_Witness ==
    /\ pc = "done"
    /\ Len(equity_curve) = Len(historical_data)
    /\ \E i, j, k \in 1..Len(step_log) :
        /\ step_log[i].attempted /\ step_log[i].call.result.success
        /\ step_log[j].attempted /\ ~step_log[j].call.result.success
        /\ step_log[k].signal = "HOLD"

-----------------------------------------------------------------------------
(* The scaled exits of BitcoinBacktester, checked under SpecBitcoin *)

\* the EXIT records the step just taken appended
NewExits == {k \in ExitTrades' : k > Len(btc_trades)}
\* the positions the step just taken closed
ClosedPositions ==
    {open_positions[i] : i \in 1..Len(open_positions)}
        \ {open_positions'[i] : i \in 1..Len(open_positions')}

\* C29: in the scaled strategy the EXIT records of a run are at pairwise
\* distinct exit levels, all of them listed levels, so there are at most as
\* many exits as exit levels; and a step closes a position only at the lowest
\* exit level not used before that its profit percentage exceeds.
C29_ExitLevelsUsedOnce ==
    /\ [](btc_config.use_scaled_strategy =>
            /\ \A j, k \in ExitTrades :
                  j # k => btc_trades[j].exit_level # btc_trades[k].exit_level
            /\ used_exit_levels = {btc_trades[k].exit_level : k \in ExitTrades}
            /\ used_exit_levels \subseteq LevelsOf(ScaledExitLevels)
            /\ Cardinality(ExitTrades) <= Len(ScaledExitLevels))
    /\ [][(btc_config.use_scaled_strategy /\ btc_pc = "loop" /\ idx' = idx + 1) =>
            \A k \in NewExits :
                LET exit == btc_trades'[k]
                    others == {btc_trades'[j].exit_level : j \in NewExits \ {k}}
                IN  /\ exit.exit_level \notin used_exit_levels
                    /\ \E pos \in ClosedPositions :
                          /\ pos.size = exit.size
                          /\ ProfitOver(pos, df[idx + 1], exit.exit_level)
                    /\ \A level \in LevelsOf(ScaledExitLevels) :
                          level < exit.exit_level
                              => level \in used_exit_levels \cup others]_vars

\* one step closed two positions whose profit exceeded the same lowest level:
\* one at that level, the other at the next
C29_Witness ==
    /\ btc_config.use_scaled_strategy
    /\ \E j, k \in ExitTrades :
        /\ btc_trades[j].time = btc_trades[k].time
        /\ btc_trades[j].exit_level = ScaledExitLevels[1]
        /\ btc_trades[k].exit_level = ScaledExitLevels[2]

\* the ENTRY records of the positions the scaled exit leaves alone
IneligibleEntries == {k \in EntryTrades : btc_trades[k].entry_level > -5}

\* C30: in the scaled strategy a position entered at an entry level above
\* -0.5 (entry level 0.0) is open after every later step, whatever its
\* profit, and is among the open positions the run returns; the positions a
\* step closes were all entered at a level of -0.5 or under.
C30_LevelZeroNeverClosed ==
    /\ [](btc_config.use_scaled_strategy =>
            /\ \A k \in IneligibleEntries :
                  \E i \in 1..Len(open_positions) :
                      /\ open_positions[i].entry_level = btc_trades[k].entry_level
                      /\ open_positions[i].entry_time = btc_trades[k].time
            /\ btc_pc = "done" =>
                  btc_result.open_positions >= Cardinality(IneligibleEntries))
    /\ [][btc_config.use_scaled_strategy =>
            \A pos \in ClosedPositions : pos.entry_level <= -5]_vars

\* a finished run whose position of entry level 0.0 is still open although
\* its profit at the last row exceeded an exit level that was never used
C30_Witness ==
    /\ btc_config.use_scaled_strategy
    /\ btc_pc = "done"
    /\ \E i \in 1..Len(open_positions) :
        /\ open_positions[i].entry_level = 0
        /\ open_positions[i].entry_time < idx
        /\ \E level \in LevelsOf(ScaledExitLevels) \ used_exit_levels :
              ProfitOver(open_positions[i], df[idx], level)

\* the ENTRY records the step just taken appended
NewEntries == {k \in EntryTrades' : k > Len(btc_trades)}
\* what the sizing derives the maximum of each leg from: a portion of the
\* initial capital in the scaled strategy, the balances otherwise (KRW, cents)
SizingKrw ==
    IF btc_config.use_scaled_strategy
    THEN ((btc_config.initial_balance_krw
            + (btc_config.initial_balance_usdt * BtcApproxRate) \div 100)
          * btc_config.position_portion) \div 100
    ELSE btc_balance_krw
SizingUsdt ==
    IF btc_config.use_scaled_strategy
    THEN (btc_config.initial_balance_usdt * btc_config.position_portion) \div 100
    ELSE btc_balance_usdt

-----------------------------------------------------------------------------
(* The specifications of the sessions, the sweeps, the ledger and the fetches *)

\* the default objects
InitDefault ==
    /\ InitEnhanced(DefaultConfig)
    /\ InitBitcoin(DefaultBtcConfig)
    /\ InitOthers

\* an object that is run, and run again
NextRerun ==
    \/ RunSynthetic
    \/ RunStep
    \/ RunFinish
    \/ RunAgain

SpecRerun == Init /\ [][NextRerun]_vars

\* the web application's backtest
NextWeb ==
    \/ RunWithProgress
    \/ StepWithProgress
    \/ FinishWithProgress

SpecWeb == Init /\ [][NextWeb]_vars

\* optimize_parameters on a new object, with any of the ranges
NextSweep ==
    \/ \E param_ranges \in ParamRanges : OptimizeParameters(param_ranges)
    \/ \E raised \in BOOLEAN, data \in SweepFrames : SweepRun(raised, data)
    \/ SweepFinish

SpecSweep == InitFair /\ [][NextSweep]_vars

\* the desktop application's optimization, and its stop button
NextDesktop ==
    \/ \E data \in WorkerFrames : OptimizeBoundaries(data)
    \/ WorkerRun
    \/ WorkerComplete
    \/ StopBacktest

SpecDesktop == InitDefault /\ [][NextDesktop]_vars

\* entries into and exits from the ledger of BitcoinArbitrageStrategy
NextStrategy ==
    \/ \E premium_data \in PremiumData, available_usdt \in AvailableUsdt :
          ExecuteEntry(premium_data, available_usdt)
    \/ \E i \in 1..MaxEntries : ExecuteExit(i)

SpecStrategy == InitDefault /\ [][NextStrategy]_vars

\* a fetch of either backtester, with any start and end
NextFetch ==
    \/ \E start_ts, end_ts \in 0..LastCandle : FetchReal(start_ts, end_ts)
    \/ \E start_ts \in 0..LastCandle, end_ts \in 0..(LastCandle + 2) :
          FetchHistoricalData(start_ts, end_ts)
    \/ BinancePage
    \/ UpbitPage
    \/ FetchRaises

SpecFetch == InitDefault /\ [][NextFetch]_vars

-----------------------------------------------------------------------------
(* Properties of BitcoinArbitrageStrategy, checked under SpecStrategy *)

\* C24 (as claimed): whatever execute_entry and execute_exit calls are made,
\* the ledger never holds more than max_open_positions open positions, and a
\* call of execute_entry made when it holds that many leaves it as it is.
C24_MaxOpenPositions ==
    /\ [](Len(arb_open_positions) <= DefaultArbitrageConfig.max_open_positions)
    /\ [][Len(arb_open_positions) >= DefaultArbitrageConfig.max_open_positions
            => Len(arb_open_positions') <= Len(arb_open_positions)]_vars

-----------------------------------------------------------------------------
(* Properties of the fetches, checked under SpecFetch *)

\* C26 (as claimed): the frame a fetch returns holds only candles of
\* [start, end], in increasing order of their timestamps.
C26_FetchedWithinRange ==
    fetch_pc = "done" =>
        /\ \A i \in 1..Len(fetched) :
              fetched[i] >= fetch_args.start_ts /\ fetched[i] <= fetch_args.end_ts
        /\ \A i \in 1..(Len(fetched) - 1) : fetched[i] < fetched[i + 1]

-----------------------------------------------------------------------------
(* Properties of the web application's backtest, checked under SpecWeb *)

\* C27 (as claimed): with the progress wrapper installed the run is never
\* aborted, and it returns what run_backtest returns for the same rows
\* without the wrapper.
C27_ProgressNeverAborts ==
    /\ pc # "aborted"
    /\ pc = "done" => result = BacktestRun(config, historical_data)

-----------------------------------------------------------------------------
(* Properties of a second run on the same object, checked under SpecRerun *)

\* C23 (as claimed): a synthetic-mode run made again on the same object with
\* the same arguments and configuration draws the same series and returns
\* the same result, with the same trades and the same equity curve.
C23_SameResultTwice ==
    (pc = "done" /\ Len(previous_runs) > 0) =>
        LET first == previous_runs[Len(previous_runs)]
        IN  first.run_args = run_args =>
                /\ historical_data = first.historical_data
                /\ result = first.result
                /\ trades = first.trades
                /\ equity_curve = first.equity_curve

-----------------------------------------------------------------------------
(* Properties of the desktop application's optimization, checked under        *)
(* SpecDesktop                                                                *)

\* C21 (as claimed): once stop_backtest has asked for cancellation no further
\* run of the sweep is started, and the results collected so far stay as
\* they are.
C21_CancelStopsSweep ==
    [][(worker_pc = "running" /\ ~is_running) =>
            /\ worker_current' = worker_current
            /\ worker_results' = worker_results]_vars

-----------------------------------------------------------------------------
(* Properties of optimize_parameters, checked under SpecSweep *)

\* the runs of the sweep that returned, in the order in which they were made
CompletedRuns == SelectSeq(sweep_runs, LAMBDA run : ~run.raised)
\* the greatest return_percentage collected, and the first entry that has it
MaxReturn ==
    CHOOSE m \in {results[i].return_percentage : i \in 1..Len(results)} :
        \A i \in 1..Len(results) : results[i].return_percentage <= m
FirstBest ==
    CHOOSE i \in 1..Len(results) :
        /\ results[i].return_percentage = MaxReturn
        /\ \A j \in 1..(i - 1) : results[j].return_percentage < MaxReturn

\* C22: each run of the sweep is made with a config of its own that differs
\* from the object's in the swept parameters only, and the object's config and
\* state are left alone; the results hold one entry per run that returned, in
\* the order of the combinations, whatever runs raised in between; and
\* best_return is the greatest return_percentage among the entries,
\* best_params the combination of the first entry that has it (empty, with
\* best_return at minus infinity, when no run returned). The sweep returns
\* these.
C22_SweepCollectsCompletedRuns ==
    /\ \A k \in 1..Len(sweep_runs) :
          /\ sweep_runs[k].params = param_combinations[k]
          /\ sweep_runs[k].config = TestConfig(config, param_combinations[k])
    /\ balance_usd = reset_state(config).balance_usd
    /\ trades = << >>
    /\ Len(results) = Len(CompletedRuns)
    /\ \A i \in 1..Len(results) :
          /\ results[i].params = CompletedRuns[i].params
          /\ results[i].return_percentage = CompletedRuns[i].result.return_percentage
          /\ results[i].total_trades = CompletedRuns[i].result.total_trades
    /\ IF Len(results) = 0
       THEN best_params = << >> /\ best_return = MinusInfinity
       ELSE /\ best_return = Finite(MaxReturn)
            /\ best_params = <<results[FirstBest].params>>
    /\ sweep_pc = "done" =>
          /\ Len(sweep_runs) = Len(param_combinations)
          /\ optimization = <<[best_params |-> best_params,
                               best_return |-> best_return,
                               all_results |-> results]>>

\* a finished sweep with a run that raised between two that returned, whose
\* best return was reached by two combinations
C22_Witness ==
    /\ sweep_pc = "done"
    /\ \E i, j, k \in 1..Len(sweep_runs) :
          /\ i < j /\ j < k
          /\ ~sweep_runs[i].raised /\ sweep_runs[j].raised /\ ~sweep_runs[k].raised
    /\ \E i, j \in 1..Len(results) :
          /\ i < j
          /\ results[i].return_percentage = MaxReturn
          /\ results[j].return_percentage = MaxReturn
          /\ results[i].params # results[j].params
          /\ best_params = <<results[i].params>>

-----------------------------------------------------------------------------
(* Properties of run_backtest's trade sizing, checked under Spec *)

\* amount is over the floor, at most max_trade_amount and at most 30% of the
\* USDT balance usd (in 1/Scale USDT)
WithinTradeSize(amount, usd) ==
    /\ amount > MinTradeSize
    /\ amount <= config.max_trade_amount
    /\ amount * 10 * Scale <= 3 * usd
\* no amount over the floor fits under max_trade_amount and 30% of usd
UnderFloor(usd) ==
    \/ config.max_trade_amount <= MinTradeSize
    \/ 3 * usd <= MinTradeSize * 10 * Scale

\* C31: processing one row calls the executor at most once, and only on a BUY
\* or SELL signal with an amount over 100, at most max_trade_amount and at
\* most 30% of the USDT balance before the call, so that every trade executed
\* has such an amount; a signal whose amount cannot be over the floor calls
\* nothing and leaves the balances, the trades and the daily counter alone.
C31_OneSizedTradePerRow ==
    [][row_index' = row_index + 1 =>
        LET e == step_log'[row_index']
        IN  /\ Len(trades') \in {Len(trades), Len(trades) + 1}
            /\ Len(trades') = Len(trades) + 1 =>
                  /\ e.attempted
                  /\ trades'[Len(trades')].action = e.signal
                  /\ trades'[Len(trades')].amount_usd = e.call.amount
            /\ e.attempted =>
                  /\ e.signal \in {"BUY", "SELL"}
                  /\ WithinTradeSize(e.call.amount, balance_usd)
            /\ (e.signal \in {"BUY", "SELL"} /\ UnderFloor(balance_usd)) =>
                  /\ ~e.attempted
                  /\ ExecutorState' = ExecutorState]_vars

\* a run whose amount is capped by the balance, with a trade executed and a
\* later signal left untraded for an amount under the floor
C31_Witness ==
    /\ config.max_trade_amount > MinTradeSize
    /\ \E i, j \in 1..Len(step_log) :
        /\ i < j
        /\ step_log[i].attempted /\ step_log[i].call.result.success
        /\ step_log[i].call.amount < config.max_trade_amount
        /\ step_log[j].signal \in {"BUY", "SELL"} /\ ~step_log[j].attempted

\* a bot of either configuration
InitTrading ==
    /\ InitEnhanced(DefaultConfig)
    /\ InitBitcoin(DefaultBtcConfig)
    /\ InitComponents
    /\ \E cfg \in TradingConfigs : InitBot(cfg)

\* calls of execute_trade, at once, after the cooldown or a day later
NextTrading ==
    \E action \in {"BUY", "SELL"}, amount \in BotAmounts, price \in BotPrices,
       gap \in CallGaps :
        ExecuteTrade(action, amount, price, gap)

SpecTrading == InitTrading /\ [][NextTrading]_vars

-----------------------------------------------------------------------------
(* Properties of the trading bot's risk checks, checked under SpecTrading *)

\* the conditions of can_trade at call c, on the counters as the call found
\* them unless its day is a new one
DayChanged(c) == c.time >= c.before.daily_reset_time + SecondsPerDay
LimitReached(c) ==
    ~DayChanged(c) /\ c.before.daily_trades >= trading_config.max_trades_per_day
LossReached(c) ==
    ~DayChanged(c) /\ c.before.daily_loss >= trading_config.max_daily_loss
CooldownActive(c) ==
    c.time - c.before.last_trade_time < trading_config.cooldown_period
TooLarge(c) ==
    c.amount * 10 * RoughConversion >
        (c.before.virtual_balance_usd * RoughConversion + c.before.virtual_balance_krw)
            * trading_config.max_position_size
BalanceShort(c) ==
    \/ c.action = "BUY" /\ c.before.virtual_balance_usd < c.amount
    \/ c.action = "SELL" /\ c.before.virtual_balance_krw < c.amount * RoughConversion
\* the fields of call c that a rejection must leave alone
Untouched(c) ==
    /\ c.after.last_trade_time = c.before.last_trade_time
    /\ c.after.virtual_balance_usd = c.before.virtual_balance_usd
    /\ c.after.virtual_balance_krw = c.before.virtual_balance_krw
    /\ c.after.trade_history = c.before.trade_history
    /\ c.after.daily_trades = IF DayChanged(c) THEN 0 ELSE c.before.daily_trades
    /\ c.after.daily_loss = IF DayChanged(c) THEN 0 ELSE c.before.daily_loss

\* C32 (as claimed): the reason of a rejection is the earliest that holds of
\* daily limit exceeded, cooldown active and insufficient balance.
C32_EarliestOfThreeReasons ==
    \A k \in 1..Len(trade_calls) :
        LET c == trade_calls[k]
        IN  (LimitReached(c) \/ CooldownActive(c) \/ BalanceShort(c)) =>
                c.reason = IF LimitReached(c) THEN "Daily trade limit exceeded"
                           ELSE IF CooldownActive(c) THEN "Cooldown period active"
                           ELSE IF c.action = "BUY" THEN "Insufficient USD balance"
                           ELSE "Insufficient KRW balance"

\* C32 (amended): can_trade resets the daily counters first when the day has
\* changed, and then answers with the earliest that holds of daily trade
\* limit, daily loss limit, cooldown, position size and insufficient balance;
\* a rejection leaves the counters as the reset left them and the last-trade
\* time, the balances and the trade history as they were.
C32_ChecksInOrder ==
    \A k \in 1..Len(trade_calls) :
        LET c == trade_calls[k]
        IN  /\ c.reason =
                  IF LimitReached(c) THEN "Daily trade limit exceeded"
                  ELSE IF LossReached(c) THEN "Daily loss limit exceeded"
                  ELSE IF CooldownActive(c) THEN "Cooldown period active"
                  ELSE IF TooLarge(c) THEN "Position size too large"
                  ELSE IF BalanceShort(c) /\ c.action = "BUY"
                  THEN "Insufficient USD balance"
                  ELSE IF BalanceShort(c) THEN "Insufficient KRW balance"
                  ELSE "Trade allowed"
            /\ c.allowed <=> c.reason = "Trade allowed"
            /\ ~c.allowed => Untouched(c) /\ ~c.result.success

\* a call with the daily limit reached, the cooldown running and the balance
\* short, answered with the limit
C32_Witness ==
    \E k \in 1..Len(trade_calls) :
        /\ LimitReached(trade_calls[k])
        /\ CooldownActive(trade_calls[k])
        /\ BalanceShort(trade_calls[k])
        /\ trade_calls[k].reason = "Daily trade limit exceeded"

\* C33: a call of execute_trade that executes no trade, rejected by can_trade
\* or failed in the execution, consumes no daily quota and starts no
\* cooldown: it leaves daily_trades (reset on a new day) and last_trade_time
\* as they were.
C33_QuotaOnlyOnSuccess ==
    \A k \in 1..Len(trade_calls) :
        LET c == trade_calls[k]
        IN  ~c.result.success =>
                /\ c.after.daily_trades =
                      IF DayChanged(c) THEN 0 ELSE c.before.daily_trades
                /\ c.after.last_trade_time = c.before.last_trade_time

\* the desktop application's trading: the main thread starts and stops it,
\* the trading thread runs run_bot
NextBot ==
    \/ StartTrading
    \/ StopTrading
    \/ RunBotStart
    \/ RunBotTest
    \/ \E price, trade_price \in BotPrices : RunBotIteration(price, trade_price)
    \/ RunBotSleep

SpecBot == InitDefault /\ [][NextBot]_vars

-----------------------------------------------------------------------------
(* Properties of the trading thread, checked under SpecBot *)

\* C39: a stop request is not lost: whenever it was made, the next test of
\* run_bot's loop leaves the loop, ending with is_running = False, so that no
\* iteration is entered and no trade executed after it.
C39_StopNeverLost ==
    [][(stop_requested /\ bot_pc = "test") =>
            /\ bot_pc' = "stopped"
            /\ ~bot_is_running']_vars

-----------------------------------------------------------------------------
(* Properties of the paginated fetch, checked under SpecFetch *)

\* C34: every turn of a fetch loop that stays in the loop moves current_ts
\* strictly forward (so that the loop ends, current_ts reaching end_ts or a
\* page coming back empty), whatever page the exchange returned.
C34_FetchLoopAdvances ==
    [][(fetch_pc \in {"binance", "upbit"} /\ fetch_pc' = fetch_pc) =>
            current_ts' > current_ts]_vars

-----------------------------------------------------------------------------
(* Properties of the balances under any cost rates, checked under SpecCosts *)

\* the default configuration with no slippage, with the default slippage of
\* 0.1% and with a slippage of 0.5%
CostConfigs == {[DefaultConfig EXCEPT !.slippage_rate = rate] : rate \in {0, 1, 5}}

InitCosts ==
    /\ \E cfg \in CostConfigs : InitEnhanced(cfg)
    /\ InitBitcoin(DefaultBtcConfig)
    /\ InitOthers

SpecCosts == InitCosts /\ [][NextFair]_vars

\* C35: neither balance of a run is ever negative, whatever the prices and
\* the commission and slippage rates.
C35_BalancesNonNegative ==
    /\ balance_usd >= 0
    /\ balance_krw >= 0

-----------------------------------------------------------------------------
(* Properties of simulate_trades' books, checked under SpecBitcoin *)

\* C36: balance_btc is initial_btc plus the sizes of the open positions, so it
\* is never under initial_btc and is initial_btc when no position is open.
C36_BtcMatchesOpenPositions ==
    /\ btc_pc \in {"loop", "done"} =>
          /\ btc_balance_btc = btc_config.initial_btc + OpenSizes
          /\ btc_balance_btc >= btc_config.initial_btc
          /\ open_positions = << >> => btc_balance_btc = btc_config.initial_btc
    /\ \A k \in 1..Len(balance_history) :
          balance_history[k].balance_btc >= btc_config.initial_btc

\* a run that started with BTC, has closed a position and holds two
C36_Witness ==
    /\ btc_config.initial_btc > 0
    /\ ExitTrades # {}
    /\ Len(open_positions) >= 2

\* the positions of seq whose index is not in indices, in their order
WithoutIndices(seq, indices) ==
    LET tagged == [i \in 1..Len(seq) |-> [i |-> i, pos |-> seq[i]]]
        kept == SelectSeq(tagged, LAMBDA e : e.i \notin indices)
    IN  [k \in 1..Len(kept) |-> kept[k].pos]

\* C38: a step closes exactly the positions it flagged: the positions open
\* after it are the positions that were open after the step's entry less the
\* flagged ones, unchanged and in their order, and the EXIT records it
\* appends are those of the flagged positions, last flagged first.
C38_ExactlyFlaggedClosed ==
    [][idx' = idx + 1 =>
        LET row == df[idx + 1]
            step == SimulateStep(btc_config, row, idx + 1,
                        Books(btc_balance_krw, btc_balance_usdt, btc_balance_btc,
                              open_positions, btc_trades),
                        used_entry_levels, used_exit_levels)
            held == step.after_entry.open_positions
            flagged == step.positions_to_close
            n == Len(flagged)
        IN  /\ open_positions' =
                  WithoutIndices(held, {flagged[k].i : k \in 1..n})
            /\ btc_trades' = step.after_entry.trades \o
                  [j \in 1..n |->
                      ExitTrade(btc_config, held[flagged[n - j + 1].i], row,
                                idx + 1, flagged[n - j + 1].exit_level)]]_vars

\* a step has closed two positions at once and left one open
C38_Witness ==
    /\ Len(open_positions) >= 1
    /\ \E j, k \in ExitTrades :
          /\ j < k
          /\ btc_trades[j].time = idx
          /\ btc_trades[k].time = idx

-----------------------------------------------------------------------------
(* Properties of simulate_trades_with_ma, checked under SpecMa *)

\* a simulation over any frame of one to MaxMaRows rows
NextMa ==
    \/ \E n \in 1..MaxMaRows : \E rows \in [1..n -> MaRows] : MaStart(rows)
    \/ MaStep
    \/ MaFinish

SpecMa == InitDefault /\ [][NextMa]_vars

\* C37: the three balances of the simulation are never negative, whatever the
\* prices.
C37_MaBalancesNonNegative ==
    /\ ma_balance_krw >= 0
    /\ ma_balance_usdt >= 0
    /\ ma_balance_btc >= 0

=============================================================================
